---- MODULE Spec2Model ----
(***************************************************************************)
(* Admission control and request exchange of dotclaw.                      *)
(*                                                                         *)
(*  Host side: executeAgentRun (agent-execution.ts) with its callers       *)
(*  runTask (task-scheduler.ts) and the webhook handler (webhook.ts).      *)
(*  The group lock (locks.ts), the agent semaphore (agent-semaphore.ts)    *)
(*  and runContainerAgent (container-runner.ts) are not part of the        *)
(*  source tree at hand; they are modelled from the design document.       *)
(*                                                                         *)
(*  Sandbox side: the daemon loop of the agent runner (processRequests,    *)
(*  isContainerInput, loop), also under worker crashes and failing         *)
(*  unlinks, and the process session registry (startProcess with its       *)
(*  output, exit, error and timer handlers, killSession, removeSession,    *)
(*  cleanupAllSessions).                                                   *)
(***************************************************************************)
EXTENDS Integers, Sequences, FiniteSets, TLC

(* ----------------------------- bounds ---------------------------------- *)

\* number of executeAgentRun calls issued
NumCalls == 3
\* capacity C of the agent semaphore
Capacity == 2

\* number of request files the host places for the worker loop
NumRequests == 2
\* cap on the executions of one request that the model follows
MaxExecs == 2
\* number of faults (worker crashes, failing unlinks) the environment inflicts
MaxFaults == 1

\* session ids that generateId hands out
NumIds == 3
\* config.maxSessions and config.maxOutputBytes of the modelled configuration
MaxSessions == 2
MaxOutputBytes == 510
DefaultTimeoutMs == 1
\* number of output chunks the subprocesses deliver in all
MaxChunks == 3
\* number of sessions started where their output is followed chunk by chunk
MaxBuffered == 1

\* the writes to the input pipes of the children that are followed
MaxWrites == 1
\* number of sessions started where every operation on them is followed
MaxStarted == 1

\* taskMaxRetries, taskRetryBaseMs and taskRetryMaxMs of the runtime
\* configuration (task-scheduler.ts 17-19)
TASK_MAX_RETRIES == 3
TASK_RETRY_BASE_MS == 1
TASK_RETRY_MAX_MS == 3
\* the period of the cron expressions and the length of the intervals
SchedulePeriod == 2
\* the instants the scheduler's clock runs through, and the runs followed
MaxClock == 6
MaxRuns == 4

Calls == 1..NumCalls
Requests == 1..NumRequests
Groups == {"g1", "g2"}
NoCall == 0

\* who issues each call: runTask, the webhook handler, or another user of the
\* exported function (the message pipeline), which chooses the flags freely
CallerOf(c) ==
  CASE c = 1 -> "scheduler"
    [] c = 2 -> "direct"
    [] OTHER -> "webhook"

\* params.group.folder of each call: calls 1 and 2 share a group
GroupOf(c) == IF c <= 2 THEN "g1" ELSE "g2"

VARIABLES
  pc,            \* position of each call inside executeAgentRun
  useLock,       \* useGroupLock (line 98)
  persist,       \* persistSession (line 97)
  outcome,       \* how runContainerAgent settled
  result,        \* how executeAgentRun settled
  semActive,     \* permits held
  semQueue,      \* calls waiting for a permit, in arrival order
  lockHolder,    \* per group: the call holding the group lock
  lockQueue,     \* per group: calls waiting for the lock, in arrival order
  semAcq, semRel, lockAcq, lockRel,   \* acquisitions / releases per call
  reqFile,       \* request file of the call present in the request area
  respFile,      \* response file of the call present in the response area
  session,       \* db session record per group (setGroupSession)
  cbSession,     \* caller's session map per group (onSessionUpdate)
  sessionWrites, \* setGroupSession invocations per call
  telemetry,     \* recordAgentTelemetry invocations per call
  traces,        \* bare writeTrace fallbacks per call (runTask)
  wpc,           \* position of the daemon loop
  wReq,          \* per request file: not yet placed, pending, removed
  wKind,         \* per request file: what its content is
  wTodo,         \* the files listed by readdirSync, still to be processed
  wResp,         \* per request id: the response file, if any: the output of
                 \* runAgentOnce or the error record of the catch block
  wExecs,        \* runAgentOnce invocations per request
  wRespWrites,   \* response file writes per request
  wOut,          \* the record the writeFileSync under way is writing
  wPath,         \* whether the current file is in the try or the catch block
  wBeat,         \* the heartbeat file, relative to the drains of the loop
  wSeen,         \* per request id: what the host's poll read, if it has
  wFaults,       \* faults inflicted so far
  wFaultAt,      \* per request: where processing it was hit by a fault
  sessions,      \* the registry: the Map from resident id to session record
  proc,          \* per id: the subprocess behind it, as the OS has it
  op,            \* the registry operation called last, and how it ended
  chunks,        \* output chunks delivered so far
  lastChunk,     \* the chunk delivered last, and the session it went to
  polled,        \* per id: the outputs its pollSession calls returned, joined
  resolved,      \* the resolveModel call made last: registry, caller, result
  task,          \* the scheduled task as stored
  runLog,        \* the runs of the task, as logTaskRun recorded them
  clock,         \* Date.now()
  hook           \* the webhook request handled last, and how it was handled

hostVars == <<pc, useLock, persist, outcome, result, semActive,
              semQueue, lockHolder, lockQueue, semAcq, semRel, lockAcq,
              lockRel, reqFile, respFile, session, cbSession, sessionWrites,
              telemetry, traces>>

workerVars == <<wpc, wReq, wKind, wTodo, wResp, wExecs, wRespWrites, wOut,
                wPath, wBeat, wSeen, wFaults, wFaultAt>>

registryVars == <<sessions, proc, op, chunks, lastChunk, polled>>

schedulerVars == <<task, runLog, clock>>

webhookVars == <<hook>>

serviceVars == <<resolved, schedulerVars, webhookVars>>

vars == <<hostVars, workerVars, registryVars, serviceVars>>

(* ------------------------ lock and semaphore --------------------------- *)

\* the semaphore grants a permit to the longest waiter while one is free
SemCanGrant(c) ==
  /\ semQueue # <<>>
  /\ Head(semQueue) = c
  /\ semActive < Capacity

\* the group lock is granted to the longest waiter of the key when free
LockCanGrant(c) ==
  /\ lockQueue[GroupOf(c)] # <<>>
  /\ Head(lockQueue[GroupOf(c)]) = c
  /\ lockHolder[GroupOf(c)] = NoCall

\* as TakesGroupLock, were the run never wrapped in the group lock
TakesGroupLock_Never(c) == FALSE

\* executeAgentRun wraps the run in the semaphore, and inside it in the lock
\* unless the caller opted out (lines 141-145)
TakesGroupLock(c) == useLock[c]

(* ------------------------------ Init ----------------------------------- *)

HostInit ==
  /\ pc = [c \in Calls |-> "idle"]
  /\ useLock = [c \in Calls |-> TRUE]
  /\ persist = [c \in Calls |-> TRUE]
  /\ outcome = [c \in Calls |-> "none"]
  /\ result = [c \in Calls |-> "none"]
  /\ semActive = 0
  /\ semQueue = <<>>
  /\ lockHolder = [g \in Groups |-> NoCall]
  /\ lockQueue = [g \in Groups |-> <<>>]
  /\ semAcq = [c \in Calls |-> 0]
  /\ semRel = [c \in Calls |-> 0]
  /\ lockAcq = [c \in Calls |-> 0]
  /\ lockRel = [c \in Calls |-> 0]
  /\ reqFile = [c \in Calls |-> FALSE]
  /\ respFile = [c \in Calls |-> FALSE]
  /\ session = [g \in Groups |-> "s0"]
  /\ cbSession = [g \in Groups |-> "s0"]
  /\ sessionWrites = [c \in Calls |-> 0]
  /\ telemetry = [c \in Calls |-> 0]
  /\ traces = [c \in Calls |-> 0]

WorkerInit ==
  /\ wpc = "top"
  /\ wReq = [r \in Requests |-> "unsent"]
  /\ wKind = [r \in Requests |-> "valid"]
  /\ wTodo = <<>>
  /\ wResp = [r \in Requests |-> "none"]
  /\ wExecs = [r \in Requests |-> 0]
  /\ wRespWrites = [r \in Requests |-> 0]
  /\ wOut = "none"
  /\ wPath = "none"
  /\ wBeat = "none"
  /\ wSeen = [r \in Requests |-> "none"]
  /\ wFaults = 0
  /\ wFaultAt = [r \in Requests |-> {}]

(* ----------------------- process session registry -------------------- *)

\* TAIL_LENGTH (line 31)
TAIL_LENGTH == 500

Ids == 1..NumIds
NoSession == 0

\* the characters subprocess output is made of: a one-byte character and a
\* character of three bytes in UTF-8
ByteWidth(ch) == IF ch = "euro" THEN 3 ELSE 1

\* Buffer.byteLength(text, 'utf-8'): the widths of the characters, summed
ByteLength(text) ==
  Cardinality({i \in 1..Len(text) : ByteWidth(text[i]) = 1})
    + 3 * Cardinality({i \in 1..Len(text) : ByteWidth(text[i]) = 3})

\* a text of n equal characters
Rep(ch, n) == [i \in 1..n |-> ch]

\* the chunks the subprocesses deliver
Chunks == {Rep("a", 255), Rep("a", 600), Rep("euro", 100)}

\* '\n[OUTPUT TRUNCATED]' (line 108)
TruncationMarker ==
  <<"\n", "[", "O", "U", "T", "P", "U", "T", " ",
    "T", "R", "U", "N", "C", "A", "T", "E", "D", "]">>

\* '\n[PROCESS TIMED OUT]' (line 147)
TimeoutMarker ==
  <<"\n", "[", "P", "R", "O", "C", "E", "S", "S", " ",
    "T", "I", "M", "E", "D", " ", "O", "U", "T", "]">>

\* err.message of the 'error' event of a child process
ErrMessage == <<"E", "N", "O", "E", "N", "T">>

\* `\n[PROCESS ERROR: ${err.message}]` (line 132)
ErrorMarker ==
  <<"\n", "[", "P", "R", "O", "C", "E", "S", "S", " ",
    "E", "R", "R", "O", "R", ":", " ">> \o ErrMessage \o <<"]">>

\* an index argument of String.prototype.slice, brought into 0..Len(text)
SliceIndex(text, i) ==
  IF i < 0
    THEN (IF Len(text) + i < 0 THEN 0 ELSE Len(text) + i)
    ELSE (IF i > Len(text) THEN Len(text) ELSE i)

\* text.slice(from, to)
Slice(text, from, to) ==
  SubSeq(text, SliceIndex(text, from) + 1, SliceIndex(text, to))

\* as UpdateTail, were the tail taken from the front of the buffer
UpdateTail_Front(s) ==
  [s EXCEPT !.tail = IF Len(s.stdout) <= TAIL_LENGTH
                       THEN s.stdout
                       ELSE Slice(s.stdout, 0, TAIL_LENGTH)]

\* updateTail (lines 51-57)
UpdateTail(s) ==
  [s EXCEPT !.tail = IF Len(s.stdout) <= TAIL_LENGTH
                       THEN s.stdout
                       ELSE Slice(s.stdout, 0 - TAIL_LENGTH, Len(s.stdout))]

\* as Exceeds, were there no cap
Exceeds_Never(s, text) == FALSE

\* line 102: the chunk would take the buffer over the cap
Exceeds(s, text) == ByteLength(s.stdout) + ByteLength(text) > MaxOutputBytes

\* line 103
Remaining(s) == MaxOutputBytes - ByteLength(s.stdout)

\* as append, were the early return of a truncated session missing
append_NoEarlyReturn(s, text) ==
  IF Exceeds(s, text)
    THEN UpdateTail([s EXCEPT
           !.stdout = (IF Remaining(s) > 0
                         THEN @ \o Slice(text, 0, Remaining(s))
                         ELSE @) \o TruncationMarker,
           !.truncated = TRUE])
    ELSE UpdateTail([s EXCEPT !.stdout = @ \o text])

\* append (lines 97-114), the 'data' handler of both pipes
append(s, text) ==
  IF s.truncated THEN s
  ELSE IF Exceeds(s, text)
    THEN UpdateTail([s EXCEPT
           !.stdout = (IF Remaining(s) > 0
                         THEN @ \o Slice(text, 0, Remaining(s))
                         ELSE @) \o TruncationMarker,
           !.truncated = TRUE])
    ELSE UpdateTail([s EXCEPT !.stdout = @ \o text])

\* the session record startProcess builds (lines 80-95 and 141-151)
NewSession(armed) ==
  [stdout |-> <<>>, tail |-> <<>>, exited |-> FALSE, exitCode |-> "null",
   exitSignal |-> "null", truncated |-> FALSE, pollCursor |-> 0,
   timer |-> IF armed THEN "armed" ELSE "none"]

\* clearTimeout and the reset of the field (lines 123-126 and 134-137)
ClearTimer(s) ==
  [s EXCEPT !.timer = IF @ = "none" THEN "none" ELSE "cleared"]

\* what the last call of the registry came to: nothing yet, a return without
\* a value, or the error thrown
NoResult == [none |-> TRUE]
Returned == [returned |-> TRUE]
Thrown(error) == [error |-> error]

\* what the runtime holds for an id before startProcess has spawned its
\* child: st is the state of the process, err whether its 'error' event was
\* emitted, via how the last signal reached it, stdin the state of its input
\* pipe, written the writes made to that pipe, timer whether its timeout
\* timer is pending
NoProcess ==
  [st |-> "unspawned", err |-> FALSE, via |-> <<>>, stdin |-> "closed",
   written |-> 0, timer |-> FALSE]

RegistryInit ==
  /\ sessions = [i \in {} |-> NewSession(TRUE)]
  /\ proc = [i \in Ids |-> NoProcess]
  /\ op = [name |-> "none", id |-> NoSession, result |-> NoResult]
  /\ chunks = 0
  /\ lastChunk = [id |-> NoSession, stream |-> "none", text |-> <<>>]
  /\ polled = [i \in Ids |-> <<>>]

\* no call of the host's services has been made
NoTask == [none |-> TRUE]

\* no task has been scheduled
SchedulerInit ==
  /\ task = NoTask
  /\ runLog = <<>>
  /\ clock = 0

\* the webhook server has handled no request
WebhookInit == hook = NoResult

ServiceInit == resolved = NoResult /\ SchedulerInit /\ WebhookInit

Init == HostInit /\ WorkerInit /\ RegistryInit /\ ServiceInit

(* --------------------------- executeAgentRun --------------------------- *)

\* useGroupLock as the callers pass it (line 98): runTask leaves it at its
\* default, the webhook handler passes true, other callers choose
LockFlags(k) == IF k = "direct" THEN BOOLEAN ELSE {TRUE}

\* persistSession as the callers pass it (line 97): runTask derives it from
\* the task's context mode, the webhook handler leaves it at its default
PersistFlags(k) == IF k = "webhook" THEN {TRUE} ELSE BOOLEAN

\* lines 95-105: the call starts, writes the snapshots and awaits the context
Call(c, ul) ==
  /\ pc[c] = "idle"
  /\ pc' = [pc EXCEPT ![c] = "context"]
  /\ useLock' = [useLock EXCEPT ![c] = ul]
  /\ UNCHANGED <<workerVars, registryVars, serviceVars>>
  /\ UNCHANGED <<persist, outcome, result, semActive, semQueue, lockHolder, lockQueue,
                 semAcq, semRel, lockAcq, lockRel, reqFile, respFile, session,
                 cbSession, sessionWrites, telemetry, traces>>

\* as ContextBuilt, were a call that opted out of the group lock to start its
\* run outside the semaphore as well
ContextBuilt_UnlockedBypass(c) ==
  /\ pc[c] = "context"
  /\ IF useLock[c]
       THEN /\ pc' = [pc EXCEPT ![c] = "semWait"]
            /\ semQueue' = Append(semQueue, c)
            /\ UNCHANGED reqFile
       ELSE /\ pc' = [pc EXCEPT ![c] = "running"]
            /\ reqFile' = [reqFile EXCEPT ![c] = TRUE]
            /\ UNCHANGED semQueue
  /\ UNCHANGED <<workerVars, registryVars, serviceVars>>
  /\ UNCHANGED <<useLock, persist, outcome, result, semActive,
                 lockHolder, lockQueue, semAcq, semRel, lockAcq, lockRel,
                 respFile, session, cbSession, sessionWrites,
                 telemetry, traces>>

\* lines 105-141: the context is built and the call asks for a permit
ContextBuilt(c) ==
  /\ pc[c] = "context"
  /\ pc' = [pc EXCEPT ![c] = "semWait"]
  /\ semQueue' = Append(semQueue, c)
  /\ UNCHANGED <<workerVars, registryVars, serviceVars>>
  /\ UNCHANGED <<useLock, persist, outcome, result, semActive,
                 lockHolder, lockQueue, semAcq, semRel, lockAcq, lockRel,
                 reqFile, respFile, session, cbSession, sessionWrites,
                 telemetry, traces>>

\* recordAgentTelemetry invocations of runTask (task-scheduler.ts 99-118) once
\* executeAgentRun has settled as r: one when a context is at hand
RunTaskTelemetry(r) == IF r \in {"returned", "AgentExecutionError"} THEN 1 ELSE 0

\* bare writeTrace fallback of runTask (task-scheduler.ts 119-134)
RunTaskTraces(r) == IF r = "Error" THEN 1 ELSE 0

\* as WebhookTelemetry, were the catch block to record nothing
WebhookTelemetry_SkipsErrors(r) == IF r = "returned" THEN 1 ELSE 0

\* recordAgentTelemetry invocations of the webhook handler (webhook.ts
\* 125-152): one after a return, one in the catch block for an
\* AgentExecutionError, none for any other error
WebhookTelemetry(r) ==
  CASE r = "returned" -> 1
    [] r = "AgentExecutionError" -> 1
    [] OTHER -> 0

\* the caller's continuation, which runs as soon as executeAgentRun settles
CallerSettles(c, r) ==
  CASE CallerOf(c) = "scheduler" ->
         /\ telemetry' = [telemetry EXCEPT ![c] = @ + RunTaskTelemetry(r)]
         /\ traces' = [traces EXCEPT ![c] = @ + RunTaskTraces(r)]
    [] CallerOf(c) = "webhook" ->
         /\ telemetry' = [telemetry EXCEPT ![c] = @ + WebhookTelemetry(r)]
         /\ UNCHANGED traces
    [] OTHER -> UNCHANGED <<telemetry, traces>>

\* how executeAgentRun settles when the snapshot write or buildAgentContext
\* fails: lines 100-112 are outside the try block, the error leaves as thrown
ContextError == "Error"

ContextFails(c) ==
  /\ pc[c] = "context"
  /\ pc' = [pc EXCEPT ![c] = "done"]
  /\ result' = [result EXCEPT ![c] = ContextError]
  /\ CallerSettles(c, ContextError)
  /\ UNCHANGED <<workerVars, registryVars, serviceVars>>
  /\ UNCHANGED <<useLock, persist, outcome, semActive, semQueue,
                 lockHolder, lockQueue, semAcq, semRel, lockAcq, lockRel,
                 reqFile, respFile, session, cbSession, sessionWrites>>

\* as SemGrant, were the wrapped operation started without waiting for a
\* free permit
SemGrant_Unbounded(c) ==
  /\ pc[c] = "semWait"
  /\ semQueue # <<>>
  /\ Head(semQueue) = c
  /\ semQueue' = Tail(semQueue)
  /\ semActive' = semActive + 1
  /\ semAcq' = [semAcq EXCEPT ![c] = @ + 1]
  /\ IF useLock[c]
       THEN /\ pc' = [pc EXCEPT ![c] = "lockWait"]
            /\ lockQueue' = [lockQueue EXCEPT ![GroupOf(c)] = Append(@, c)]
            /\ UNCHANGED reqFile
       ELSE /\ pc' = [pc EXCEPT ![c] = "running"]
            /\ reqFile' = [reqFile EXCEPT ![c] = TRUE]
            /\ UNCHANGED lockQueue
  /\ UNCHANGED <<workerVars, registryVars, serviceVars>>
  /\ UNCHANGED <<useLock, persist, outcome, result, lockHolder,
                 semRel, lockAcq, lockRel, respFile, session, cbSession,
                 sessionWrites, telemetry, traces>>

\* line 141: the permit is granted and the wrapped operation starts: it asks
\* for the group lock (line 143) or starts the run at once (line 144)
SemGrant(c) ==
  /\ pc[c] = "semWait"
  /\ SemCanGrant(c)
  /\ semQueue' = Tail(semQueue)
  /\ semActive' = semActive + 1
  /\ semAcq' = [semAcq EXCEPT ![c] = @ + 1]
  /\ IF TakesGroupLock(c)
       THEN /\ pc' = [pc EXCEPT ![c] = "lockWait"]
            /\ lockQueue' = [lockQueue EXCEPT ![GroupOf(c)] = Append(@, c)]
            /\ UNCHANGED reqFile
       ELSE /\ pc' = [pc EXCEPT ![c] = "running"]
            /\ reqFile' = [reqFile EXCEPT ![c] = TRUE]
            /\ UNCHANGED lockQueue
  /\ UNCHANGED <<workerVars, registryVars, serviceVars>>
  /\ UNCHANGED <<useLock, persist, outcome, result, lockHolder,
                 semRel, lockAcq, lockRel, respFile, session, cbSession,
                 sessionWrites, telemetry, traces>>

\* line 143: the lock is granted and runContainer starts: the request file
\* is renamed into the request area
LockGrant(c) ==
  /\ pc[c] = "lockWait"
  /\ LockCanGrant(c)
  /\ lockQueue' = [lockQueue EXCEPT ![GroupOf(c)] = Tail(@)]
  /\ lockHolder' = [lockHolder EXCEPT ![GroupOf(c)] = c]
  /\ lockAcq' = [lockAcq EXCEPT ![c] = @ + 1]
  /\ pc' = [pc EXCEPT ![c] = "running"]
  /\ reqFile' = [reqFile EXCEPT ![c] = TRUE]
  /\ UNCHANGED <<workerVars, registryVars, serviceVars>>
  /\ UNCHANGED <<useLock, persist, outcome, result, semActive,
                 semQueue, semAcq, semRel, lockRel, respFile, session,
                 cbSession, sessionWrites, telemetry, traces>>

\* the sandbox claims the request and writes the response named by its id
SandboxAnswer(c) ==
  /\ reqFile[c]
  /\ reqFile' = [reqFile EXCEPT ![c] = FALSE]
  /\ respFile' = [respFile EXCEPT ![c] = TRUE]
  /\ UNCHANGED <<workerVars, registryVars, serviceVars>>
  /\ UNCHANGED <<pc, useLock, persist, outcome, result, semActive,
                 semQueue, lockHolder, lockQueue, semAcq, semRel, lockAcq,
                 lockRel, session, cbSession, sessionWrites, telemetry, traces>>

\* as AfterRun, were the run's settling to resume the caller with no cleanup
AfterRun_NoCleanup(c) == "resumed"

\* as AfterRun, were the lock's cleanup skipped
AfterRun_SkipUnlock(c) == "unsem"

\* after runContainer settles: the lock's cleanup runs next when the lock was
\* taken, the semaphore's cleanup otherwise
AfterRun(c) == IF TakesGroupLock(c) THEN "unlock" ELSE "unsem"

\* the poll finds the response file, reads and discards it: an output with
\* or without a new session id, or a file that cannot be parsed
RunOutcomes == {"ok", "okSid", "fault"}

RunComplete(c, o) ==
  /\ pc[c] = "running"
  /\ respFile[c]
  /\ respFile' = [respFile EXCEPT ![c] = FALSE]
  /\ outcome' = [outcome EXCEPT ![c] = o]
  /\ pc' = [pc EXCEPT ![c] = AfterRun(c)]
  /\ UNCHANGED <<workerVars, registryVars, serviceVars>>
  /\ UNCHANGED <<useLock, persist, result, semActive, semQueue,
                 lockHolder, lockQueue, semAcq, semRel, lockAcq, lockRel,
                 reqFile, session, cbSession, sessionWrites, telemetry, traces>>

\* as RunTimeout, were there no deadline
RunTimeout_Never(c) ==
  /\ FALSE
  /\ UNCHANGED vars

\* the deadline passes with no response file: the run fails with a timeout;
\* nothing is told to the sandbox
RunTimeout(c) ==
  /\ pc[c] = "running"
  /\ ~respFile[c]
  /\ outcome' = [outcome EXCEPT ![c] = "timeout"]
  /\ pc' = [pc EXCEPT ![c] = AfterRun(c)]
  /\ UNCHANGED <<workerVars, registryVars, serviceVars>>
  /\ UNCHANGED <<useLock, persist, result, semActive, semQueue,
                 lockHolder, lockQueue, semAcq, semRel, lockAcq, lockRel,
                 reqFile, respFile, session, cbSession, sessionWrites,
                 telemetry, traces>>

\* withGroupLock's cleanup: the lock is released
LockRelease(c) ==
  /\ pc[c] = "unlock"
  /\ lockHolder' = [lockHolder EXCEPT ![GroupOf(c)] = NoCall]
  /\ lockRel' = [lockRel EXCEPT ![c] = @ + 1]
  /\ pc' = [pc EXCEPT ![c] = "unsem"]
  /\ UNCHANGED <<workerVars, registryVars, serviceVars>>
  /\ UNCHANGED <<useLock, persist, outcome, result, semActive,
                 semQueue, lockQueue, semAcq, semRel, lockAcq, reqFile,
                 respFile, session, cbSession, sessionWrites, telemetry,
                 traces>>

\* runWithAgentSemaphore's cleanup: the permit is released
SemRelease(c) ==
  /\ pc[c] = "unsem"
  /\ semActive' = semActive - 1
  /\ semRel' = [semRel EXCEPT ![c] = @ + 1]
  /\ pc' = [pc EXCEPT ![c] = "resumed"]
  /\ UNCHANGED <<workerVars, registryVars, serviceVars>>
  /\ UNCHANGED <<useLock, persist, outcome, result, semQueue,
                 lockHolder, lockQueue, semAcq, lockAcq, lockRel, reqFile,
                 respFile, session, cbSession, sessionWrites, telemetry,
                 traces>>

\* as Persists, were persistSession ignored
Persists_IgnoresOptOut(c, ps) == outcome[c] = "okSid"

\* line 151: the session is persisted when an id is reported and the caller
\* did not opt out
Persists(c, ps) == outcome[c] = "okSid" /\ ps

\* as Rethrown, were the caught error rethrown as it is
Rethrown_Raw(c) == "Error"

\* lines 146-149: whatever the wrapped operation threw is rethrown as an
\* AgentExecutionError holding the context
Rethrown(c) == "AgentExecutionError"

\* how executeAgentRun settles once the await of line 141 resumes
Settles(c) == IF outcome[c] \in {"timeout", "fault"} THEN Rethrown(c) ELSE "returned"

\* lines 146-156: the await of line 141 resumes, and the caller continues.
\* persistSession is an input that only line 151 uses; it is drawn here and
\* kept for the record
Complete(c, ps) ==
  /\ pc[c] = "resumed"
  /\ persist' = [persist EXCEPT ![c] = ps]
  /\ pc' = [pc EXCEPT ![c] = "done"]
  /\ result' = [result EXCEPT ![c] = Settles(c)]
  /\ IF Settles(c) = "returned" /\ Persists(c, ps)
       THEN /\ cbSession' = [cbSession EXCEPT ![GroupOf(c)] = "s1"]
            /\ session' = [session EXCEPT ![GroupOf(c)] = "s1"]
            /\ sessionWrites' = [sessionWrites EXCEPT ![c] = @ + 1]
       ELSE UNCHANGED <<session, cbSession, sessionWrites>>
  /\ CallerSettles(c, Settles(c))
  /\ UNCHANGED <<workerVars, registryVars, serviceVars>>
  /\ UNCHANGED <<useLock, outcome, semActive, semQueue,
                 lockHolder, lockQueue, semAcq, semRel, lockAcq, lockRel,
                 reqFile, respFile>>

(* ----------------------------- worker loop ---------------------------- *)

\* contents a request file can have: a well-formed input, an input lacking
\* one of the checked fields or with a non-boolean isMain, or text that is
\* no JSON
PayloadKinds == {"valid", "noPrompt", "noGroup", "noChat", "badFlag", "garbage"}

\* JSON.parse of the file's text (line 294) succeeds
Parses(k) == k # "garbage"

\* typeof of the fields isContainerInput looks at
FieldTypes(k) ==
  [prompt      |-> IF k = "noPrompt" THEN "undefined" ELSE "string",
   groupFolder |-> IF k = "noGroup" THEN "undefined" ELSE "string",
   chatJid     |-> IF k = "noChat" THEN "undefined" ELSE "string",
   isMain      |-> IF k = "badFlag" THEN "string" ELSE "boolean"]

\* as IsContainerInput, were the type of isMain left unchecked
IsContainerInput_NoFlagCheck(k) ==
  /\ FieldTypes(k).prompt = "string"
  /\ FieldTypes(k).groupFolder = "string"
  /\ FieldTypes(k).chatJid = "string"

\* isContainerInput (lines 321-328)
IsContainerInput(k) ==
  /\ FieldTypes(k).prompt = "string"
  /\ FieldTypes(k).groupFolder = "string"
  /\ FieldTypes(k).chatJid = "string"
  /\ FieldTypes(k).isMain = "boolean"

\* the try block reaches runAgentOnce (lines 293-300)
Accepted(k) == Parses(k) /\ IsContainerInput(k)

\* all orders in which readdirSync can list a set of files
Orders(S) ==
  {o \in [1..Cardinality(S) -> S] : \A i, j \in 1..Cardinality(S) : i # j => o[i] # o[j]}

\* the status field of a response file
StatusOf(resp) ==
  CASE resp = "outputSuccess" -> "success"
    [] resp \in {"outputError", "caught"} -> "error"
    [] OTHER -> "none"

\* as Unlinked, were the request file left in place
Unlinked_Kept(f) == wReq

\* the request area after unlinkSync of the file (lines 303 and 313)
Unlinked(f) == [wReq EXCEPT ![f] = "removed"]

\* as HeartbeatAt, were the heartbeat written once the drain is over
HeartbeatAt_AfterDrain(pos) == pos = "drained"

\* line 335: the position of the loop body at which writeHeartbeat is called:
\* the top of the iteration, before processRequests
HeartbeatAt(pos) == pos = "top"

\* lines 302 and 307: writeFileSync opens the final path itself and then
\* writes the record into it, so between the two the file in place holds a
\* part of the record only
WrittenInPlace(resp) == "partial"

\* the name of a request file: the final name is the request id with the
\* suffix .json; the temporary path the host writes to first ends in .tmp
RequestName(st) ==
  IF st = "staged" THEN <<"id", ".json", ".tmp">> ELSE <<"id", ".json">>

\* as EndsWithJson, were every file of the request area taken
EndsWithJson_Any(name) == TRUE

\* line 288: file.endsWith('.json')
EndsWithJson(name) == name[Len(name)] = ".json"

\* line 288: the files of the request area that processRequests lists
Listed ==
  {r \in Requests : /\ wReq[r] \in {"staged", "pending"}
                    /\ EndsWithJson(RequestName(wReq[r]))}

\* as NextFiles, were the request area listed anew after every file
NextFiles_Relisted(todo) ==
  CHOOSE o \in Orders(Listed \ {Head(todo)}) : TRUE

\* line 289: the for loop goes on to the next of the files listed at line 288
NextFiles(todo) == Tail(todo)

\* the host starts to write a request to its temporary path in the request
\* area
StageRequest(r) ==
  /\ wReq[r] = "unsent"
  /\ wReq' = [wReq EXCEPT ![r] = "staged"]
  /\ UNCHANGED <<wpc, wKind, wTodo, wResp, wExecs, wRespWrites, wOut, wPath,
                 wBeat, wSeen, wFaults, wFaultAt>>
  /\ UNCHANGED <<hostVars, registryVars, serviceVars>>

\* the host renames a request file, written in full, into the request area
PlaceRequest(r, k) ==
  /\ wReq[r] = "staged"
  /\ wReq' = [wReq EXCEPT ![r] = "pending"]
  /\ wKind' = [wKind EXCEPT ![r] = k]
  /\ UNCHANGED <<wpc, wTodo, wResp, wExecs, wRespWrites, wOut, wPath, wBeat,
                 wSeen, wFaults, wFaultAt>>
  /\ UNCHANGED <<hostVars, registryVars, serviceVars>>

\* the host's poll finds the response file named by the request id and reads
\* what is in it
HostPoll(r) ==
  /\ wResp[r] # "none"
  /\ wSeen[r] = "none"
  /\ wSeen' = [wSeen EXCEPT ![r] = wResp[r]]
  /\ UNCHANGED <<wpc, wReq, wKind, wTodo, wResp, wExecs, wRespWrites, wOut,
                 wPath, wBeat, wFaults, wFaultAt>>
  /\ UNCHANGED <<hostVars, registryVars, serviceVars>>

\* loop, lines 333-338, and processRequests, line 288: the heartbeat is
\* written and the request area is listed
BeginCycle(o) ==
  /\ wpc = "top"
  /\ wTodo' = o
  /\ wpc' = "work"
  /\ wBeat' = IF HeartbeatAt("top") THEN "fresh" ELSE wBeat
  /\ UNCHANGED <<wReq, wKind, wResp, wExecs, wRespWrites, wOut, wPath, wSeen,
                 wFaults, wFaultAt>>
  /\ UNCHANGED <<hostVars, registryVars, serviceVars>>

\* lines 289-300 for the next listed file: it is read, parsed and checked;
\* an accepted input is handed to runAgentOnce
AcceptFile ==
  /\ wpc = "work"
  /\ wTodo # <<>>
  /\ Accepted(wKind[Head(wTodo)])
  /\ wExecs[Head(wTodo)] < MaxExecs
  /\ wExecs' = [wExecs EXCEPT ![Head(wTodo)] = @ + 1]
  /\ wpc' = "exec"
  /\ wPath' = "try"
  /\ UNCHANGED <<wReq, wKind, wTodo, wResp, wRespWrites, wOut, wBeat, wSeen,
                 wFaults, wFaultAt>>
  /\ UNCHANGED <<hostVars, registryVars, serviceVars>>

\* writeFileSync of a response record for the current file starts
StartWrite(resp, path) ==
  /\ wResp' = [wResp EXCEPT ![Head(wTodo)] = WrittenInPlace(resp)]
  /\ wRespWrites' = [wRespWrites EXCEPT ![Head(wTodo)] = @ + 1]
  /\ wOut' = resp
  /\ wPath' = path
  /\ wpc' = "writing"

\* lines 293-299 and 304-311 for the next listed file: the parse or the check
\* throws; the catch block starts to write an error response
RejectFile ==
  /\ wpc = "work"
  /\ wTodo # <<>>
  /\ ~Accepted(wKind[Head(wTodo)])
  /\ StartWrite("caught", "catch")
  /\ UNCHANGED <<wReq, wKind, wTodo, wExecs, wBeat, wSeen, wFaults, wFaultAt>>
  /\ UNCHANGED <<hostVars, registryVars, serviceVars>>

\* lines 300-302: runAgentOnce returns an output of some status; the write
\* of the response starts
AgentReturns(out) ==
  /\ wpc = "exec"
  /\ StartWrite(out, "try")
  /\ UNCHANGED <<wReq, wKind, wTodo, wExecs, wBeat, wSeen, wFaults, wFaultAt>>
  /\ UNCHANGED <<hostVars, registryVars, serviceVars>>

\* lines 300 and 304-311: runAgentOnce throws; the catch block starts to
\* write an error response
AgentThrows ==
  /\ wpc = "exec"
  /\ StartWrite("caught", "catch")
  /\ UNCHANGED <<wReq, wKind, wTodo, wExecs, wBeat, wSeen, wFaults, wFaultAt>>
  /\ UNCHANGED <<hostVars, registryVars, serviceVars>>

\* lines 302 and 307: writeFileSync returns, the record is in the file
FinishWrite ==
  /\ wpc = "writing"
  /\ wResp' = [wResp EXCEPT ![Head(wTodo)] = wOut]
  /\ wOut' = "none"
  /\ wpc' = "written"
  /\ UNCHANGED <<wReq, wKind, wTodo, wExecs, wRespWrites, wPath, wBeat, wSeen,
                 wFaults, wFaultAt>>
  /\ UNCHANGED <<hostVars, registryVars, serviceVars>>

\* lines 303 and 313: the request file is unlinked, the for loop goes on
Unlink ==
  /\ wpc = "written"
  /\ wReq' = Unlinked(Head(wTodo))
  /\ wTodo' = NextFiles(wTodo)
  /\ wPath' = "none"
  /\ wpc' = "work"
  /\ UNCHANGED <<wKind, wResp, wExecs, wRespWrites, wOut, wBeat, wSeen,
                 wFaults, wFaultAt>>
  /\ UNCHANGED <<hostVars, registryVars, serviceVars>>

\* lines 303-317 when unlinkSync throws. In the try block the catch block
\* takes over and writes an error response over the one just written; in the
\* catch block the failure is ignored. Either way the file stays
UnlinkFails ==
  /\ wpc = "written"
  /\ wFaults < MaxFaults
  /\ wFaults' = wFaults + 1
  /\ wFaultAt' = [wFaultAt EXCEPT ![Head(wTodo)] = @ \cup {"unlink"}]
  /\ IF wPath = "try"
       THEN /\ StartWrite("caught", "catch")
            /\ UNCHANGED wTodo
       ELSE /\ wTodo' = NextFiles(wTodo)
            /\ wPath' = "none"
            /\ wpc' = "work"
            /\ UNCHANGED <<wResp, wRespWrites, wOut>>
  /\ UNCHANGED <<wReq, wKind, wExecs, wBeat, wSeen>>
  /\ UNCHANGED <<hostVars, registryVars, serviceVars>>

\* the worker process dies where it is and is started again: loop begins
\* anew (lines 330-333); the files stay as they are
Crash ==
  /\ wpc # "top"
  /\ wFaults < MaxFaults
  /\ wFaults' = wFaults + 1
  /\ wFaultAt' = IF wpc \in {"exec", "writing", "written"}
                   THEN [wFaultAt EXCEPT ![Head(wTodo)] = @ \cup {wpc}]
                   ELSE wFaultAt
  /\ wpc' = "top"
  /\ wTodo' = <<>>
  /\ wOut' = "none"
  /\ wPath' = "none"
  /\ UNCHANGED <<wReq, wKind, wResp, wExecs, wRespWrites, wBeat, wSeen>>
  /\ UNCHANGED <<hostVars, registryVars, serviceVars>>

\* lines 338-342: every listed file is done, processRequests returns and the
\* loop sleeps
EndCycle ==
  /\ wpc = "work"
  /\ wTodo = <<>>
  /\ wpc' = "sleep"
  /\ wBeat' = IF HeartbeatAt("drained") THEN "fresh" ELSE "drained"
  /\ UNCHANGED <<wReq, wKind, wTodo, wResp, wExecs, wRespWrites, wOut, wPath,
                 wSeen, wFaults, wFaultAt>>
  /\ UNCHANGED <<hostVars, registryVars, serviceVars>>

\* lines 333 and 342: the sleep ends, the next iteration starts
Wake ==
  /\ wpc = "sleep"
  /\ wpc' = "top"
  /\ UNCHANGED <<wReq, wKind, wTodo, wResp, wExecs, wRespWrites, wOut, wPath,
                 wBeat, wSeen, wFaults, wFaultAt>>
  /\ UNCHANGED <<hostVars, registryVars, serviceVars>>

(* ------------------------- registry operations ------------------------ *)

\* the timeoutMs option a caller of startProcess passes; 0 stands for an
\* option left out as well
TimeoutOpts == {-1, 0, 1}

\* as EffectiveTimeout, were a timeoutMs of 0 taken as given
EffectiveTimeout_ZeroDisables(t) == t

\* line 70: opts?.timeoutMs || config.defaultTimeoutMs
EffectiveTimeout(t) == IF t # 0 THEN t ELSE DefaultTimeoutMs

\* the ids resident in the Map
Resident == DOMAIN sessions

\* as AtCapacity, were the sessions that have exited left out of the count
AtCapacity_LiveOnly ==
  Cardinality({i \in Resident : ~sessions[i].exited}) >= MaxSessions

\* as AtCapacity, were the comparison strict
AtCapacity_OffByOne == Cardinality(Resident) > MaxSessions

\* line 64: sessions.size >= config.maxSessions
AtCapacity == Cardinality(Resident) >= MaxSessions

\* generateId('proc'): an id never handed out before
GenerateId == CHOOSE i \in Ids : proc[i].st = "unspawned" /\ \A j \in 1..(i - 1) : proc[j].st # "unspawned"

\* as SignalPath, were the tracked child signalled in the first place
SignalPath_ChildFirst(groupOk) == <<"child">>

\* lines 217-221 and 144-146: process.kill(-pid, sig) signals the process
\* group; child.kill(sig) is the fallback when that throws
SignalPath(groupOk) == IF groupOk THEN <<"group">> ELSE <<"group", "child">>

\* the subprocess after the signal was sent that way
Signalled(p, sig, groupOk) ==
  IF p.st \in {"running", "term", "killed"}
    THEN [p EXCEPT !.st = IF sig = "SIGKILL" \/ @ = "killed" THEN "killed" ELSE "term",
                   !.via = SignalPath(groupOk)]
    ELSE p

\* the Map without the entry of an id (line 233)
Deleted(id) == [i \in Resident \ {id} |-> sessions[i]]

\* the child spawn has started (lines 73-78), with its timer set or not
\* (lines 141-151)
Spawned(armed) ==
  [st |-> "running", err |-> FALSE, via |-> <<>>, stdin |-> "open",
   written |-> 0, timer |-> armed]

\* as StartProcess, were the child spawned before the capacity check
StartProcess_SpawnsFirst(t) ==
  /\ \E i \in Ids : proc[i].st = "unspawned"
  /\ proc' = [proc EXCEPT ![GenerateId] = Spawned(EffectiveTimeout(t) > 0)]
  /\ IF AtCapacity
       THEN /\ op' = [name |-> "startProcess", id |-> NoSession,
                      result |-> Thrown("capacity")]
            /\ UNCHANGED sessions
       ELSE /\ sessions' = [i \in Resident \cup {GenerateId} |->
                              IF i = GenerateId THEN NewSession(EffectiveTimeout(t) > 0)
                                                ELSE sessions[i]]
            /\ op' = [name |-> "startProcess", id |-> GenerateId,
                      timeoutMs |-> t, result |-> Returned]
  /\ UNCHANGED <<chunks, lastChunk, polled>>
  /\ UNCHANGED <<hostVars, workerVars, serviceVars>>

\* startProcess (lines 59-155)
StartProcess(t) ==
  /\ IF AtCapacity
       THEN /\ op' = [name |-> "startProcess", id |-> NoSession,
                      result |-> Thrown("capacity")]
            /\ UNCHANGED <<sessions, proc>>
       ELSE /\ \E i \in Ids : proc[i].st = "unspawned"
            /\ sessions' = [i \in Resident \cup {GenerateId} |->
                              IF i = GenerateId THEN NewSession(EffectiveTimeout(t) > 0)
                                                ELSE sessions[i]]
            /\ proc' = [proc EXCEPT ![GenerateId] = Spawned(EffectiveTimeout(t) > 0)]
            /\ op' = [name |-> "startProcess", id |-> GenerateId,
                      timeoutMs |-> t, result |-> Returned]
  /\ UNCHANGED <<chunks, lastChunk, polled>>
  /\ UNCHANGED <<hostVars, workerVars, serviceVars>>

\* the output pipes of a child
Streams == {"stdout", "stderr"}

\* as DataHandler, were the 'data' events of stderr left without a handler
DataHandler_StdoutOnly(stream) == IF stream = "stdout" THEN "append" ELSE "none"

\* lines 116-117: the handler of the 'data' events of each pipe
DataHandler(stream) == "append"

\* a 'data' event of the stdout or the stderr pipe of a session's child
\* (lines 116-117)
OutputChunk(id, stream, text) ==
  /\ id \in Resident
  /\ proc[id].st \in {"running", "term", "killed"}
  /\ chunks < MaxChunks
  /\ sessions' = [sessions EXCEPT ![id] =
                    IF DataHandler(stream) = "append" THEN append(@, text) ELSE @]
  /\ chunks' = chunks + 1
  /\ lastChunk' = [id |-> id, stream |-> stream, text |-> text]
  /\ UNCHANGED <<proc, op, polled>>
  /\ UNCHANGED <<hostVars, workerVars, serviceVars>>

\* code and signal of the 'close' event
ExitCode(p) == IF p.st = "running" THEN "0" ELSE "null"
ExitSignal(p) ==
  CASE p.st = "term" -> "SIGTERM"
    [] p.st = "killed" -> "SIGKILL"
    [] OTHER -> "null"

\* the 'close' event of a session's child (lines 119-127): the process has
\* ended and its pipes are closed
ProcessCloses(id) ==
  /\ id \in Resident
  /\ proc[id].st \in {"running", "term", "killed"}
  /\ proc' = [proc EXCEPT ![id].st = "closed", ![id].stdin = "closed",
                         ![id].timer = FALSE]
  /\ sessions' = [sessions EXCEPT ![id] =
                    ClearTimer([@ EXCEPT !.exited = TRUE,
                                         !.exitCode = ExitCode(proc[id]),
                                         !.exitSignal = ExitSignal(proc[id])])]
  /\ UNCHANGED <<op, chunks, lastChunk, polled>>
  /\ UNCHANGED <<hostVars, workerVars, serviceVars>>

\* the 'error' event of a session's child (lines 129-138): the process could
\* not be spawned or could not be signalled
ProcessError(id) ==
  /\ id \in Resident
  /\ proc[id].st \in {"running", "term", "killed"}
  /\ ~proc[id].err
  /\ proc' = [proc EXCEPT ![id].err = TRUE, ![id].timer = FALSE]
  /\ sessions' = [sessions EXCEPT ![id] =
                    ClearTimer(UpdateTail([@ EXCEPT !.exited = TRUE,
                                                    !.exitCode = "1",
                                                    !.stdout = @ \o ErrorMarker]))]
  /\ UNCHANGED <<op, chunks, lastChunk, polled>>
  /\ UNCHANGED <<hostVars, workerVars, serviceVars>>

\* as TimedOut, were no marker appended
TimedOut_NoMarker(s) == [s EXCEPT !.timer = "fired"]

\* the session record after the timer callback (lines 142-150)
TimedOut(s) ==
  IF s.exited
    THEN [s EXCEPT !.timer = "fired"]
    ELSE UpdateTail([s EXCEPT !.timer = "fired", !.stdout = @ \o TimeoutMarker])

\* the timeout timer set by startProcess expires (lines 142-150). The
\* callback holds the session record itself, in the Map or not
TimerFires(id, groupOk) ==
  /\ proc[id].timer
  /\ sessions' = IF id \in Resident
                   THEN [sessions EXCEPT ![id] = TimedOut(@)]
                   ELSE sessions
  /\ proc' = [proc EXCEPT ![id] =
                [(IF id \in Resident /\ sessions[id].exited
                    THEN @ ELSE Signalled(@, "SIGKILL", groupOk))
                 EXCEPT !.timer = FALSE]]
  /\ UNCHANGED <<op, chunks, lastChunk, polled>>
  /\ UNCHANGED <<hostVars, workerVars, serviceVars>>

\* line 213, and the like of every operation that takes an id: sessions.get(id)
Found(id) == id \in Resident

\* the throw of 'Session not found' (lines 186, 194, 206, 214, 226): the call
\* returns no value and has written nothing
NotFound(name, id) ==
  /\ op' = [name |-> name, id |-> id, result |-> Thrown("notFound")]
  /\ UNCHANGED <<sessions, proc, chunks, lastChunk, polled>>
  /\ UNCHANGED <<hostVars, workerVars, serviceVars>>

\* the signal a caller of killSession names; "none" stands for none given
KillSignals == {"none", "SIGTERM", "SIGKILL"}

\* line 216: signal || 'SIGTERM'
EffectiveSignal(signal) == IF signal = "none" THEN "SIGTERM" ELSE signal

\* the processes after lines 215-221 of killSession
Killed(id, sig, groupOk) ==
  IF sessions[id].exited THEN proc
  ELSE [proc EXCEPT ![id] = Signalled(@, sig, groupOk)]

\* killSession (lines 212-222)
KillSession(id, signal, groupOk) ==
  IF ~Found(id) THEN NotFound("killSession", id)
  ELSE /\ proc' = Killed(id, EffectiveSignal(signal), groupOk)
       /\ op' = [name |-> "killSession", id |-> id, signal |-> signal,
                 result |-> Returned]
       /\ UNCHANGED <<sessions, chunks, lastChunk, polled>>
       /\ UNCHANGED <<hostVars, workerVars, serviceVars>>

\* as TimerCancelled, were the timer of a removed session left pending
TimerCancelled_Left(p) == p

\* lines 230-232: clearTimeout of the session's timer
TimerCancelled(p) == [p EXCEPT !.timer = FALSE]

\* the processes after lines 227-232 of removeSession
Removed(ps, id, groupOk) ==
  [ps EXCEPT ![id] =
     TimerCancelled(IF sessions[id].exited THEN @
                    ELSE Signalled(@, "SIGKILL", groupOk))]

\* removeSession (lines 224-234)
RemoveSession(id, groupOk) ==
  IF ~Found(id) THEN NotFound("removeSession", id)
  ELSE /\ proc' = Removed(proc, id, groupOk)
       /\ sessions' = Deleted(id)
       /\ op' = [name |-> "removeSession", id |-> id, result |-> Returned]
       /\ UNCHANGED <<chunks, lastChunk, polled>>
       /\ UNCHANGED <<hostVars, workerVars, serviceVars>>

\* as CleanedUp, were the sessions that exited left in the Map
CleanedUp_OnlyRunning == [i \in {j \in Resident : sessions[j].exited} |-> sessions[i]]

\* the Map after the loop of cleanupAllSessions (lines 254-256)
CleanedUp == [i \in {} |-> sessions[i]]

\* cleanupAllSessions (lines 253-257): removeSession for every entry
CleanupAllSessions(groupOk) ==
  /\ proc' = [i \in Ids |->
                IF i \in Resident THEN Removed(proc, i, groupOk)[i] ELSE proc[i]]
  /\ sessions' = CleanedUp
  /\ op' = [name |-> "cleanupAllSessions", id |-> NoSession, result |-> Returned]
  /\ UNCHANGED <<chunks, lastChunk, polled>>
  /\ UNCHANGED <<hostVars, workerVars, serviceVars>>

\* as NewOutput, were the whole buffer returned
NewOutput_Whole(s) == s.stdout

\* line 187: s.stdout.slice(s.pollCursor)
NewOutput(s) == Slice(s.stdout, s.pollCursor, Len(s.stdout))

\* as CursorMoved, were the cursor left where it is
CursorMoved_Stays(s) == s

\* line 188: s.pollCursor = s.stdout.length
CursorMoved(s) == [s EXCEPT !.pollCursor = Len(s.stdout)]

\* what pollSession returns (line 189)
PollResult(s) ==
  [newOutput |-> NewOutput(s), exited |-> s.exited, exitCode |-> s.exitCode]

\* pollSession (lines 184-190)
PollSession(id) ==
  IF ~Found(id) THEN NotFound("pollSession", id)
  ELSE /\ op' = [name |-> "pollSession", id |-> id,
                 result |-> PollResult(sessions[id])]
       /\ sessions' = [sessions EXCEPT ![id] = CursorMoved(@)]
       /\ polled' = [polled EXCEPT ![id] = @ \o NewOutput(sessions[id])]
       /\ UNCHANGED <<proc, chunks, lastChunk>>
       /\ UNCHANGED <<hostVars, workerVars, serviceVars>>

\* an argument the caller left out
Omitted == 0 - 1

\* the offset and limit arguments the tool layer passes to getLog
LogOffsets == {Omitted, 3, 700}
LogLimits == {Omitted, 0, 4}

\* as LogStart, were a read without offset started at the poll cursor
LogStart_AtCursor(s, offset) ==
  IF offset = Omitted THEN s.pollCursor ELSE offset

\* line 195: offset || 0
LogStart(s, offset) == IF offset = Omitted \/ offset = 0 THEN 0 ELSE offset

\* line 196: limit ? start + limit : undefined, where slice takes an
\* undefined end for the end of the text
LogEnd(s, offset, limit) ==
  IF limit = Omitted \/ limit = 0
    THEN Len(s.stdout)
    ELSE LogStart(s, offset) + limit

\* what getLog returns (lines 197-201)
LogResult(s, offset, limit) ==
  [output |-> Slice(s.stdout, LogStart(s, offset), LogEnd(s, offset, limit)),
   totalChars |-> Len(s.stdout),
   truncated |-> s.truncated]

\* getLog (lines 192-202)
GetLog(id, offset, limit) ==
  IF ~Found(id) THEN NotFound("getLog", id)
  ELSE /\ op' = [name |-> "getLog", id |-> id, args |-> <<offset, limit>>,
                 result |-> LogResult(sessions[id], offset, limit)]
       /\ UNCHANGED <<sessions, proc, chunks, lastChunk, polled>>
       /\ UNCHANGED <<hostVars, workerVars, serviceVars>>

\* lines 236-250: the fields of a session that toPublic copies
ToPublic(s) ==
  [stdout |-> s.stdout, tail |-> s.tail, exited |-> s.exited,
   exitCode |-> s.exitCode, exitSignal |-> s.exitSignal,
   truncated |-> s.truncated]

\* the null that getSession returns for an id it does not find (line 180)
Null == [null |-> TRUE]

\* as GetSessionResult, did getSession throw as the other operations do
GetSessionResult_Throws(id) ==
  IF ~Found(id) THEN Thrown("notFound") ELSE ToPublic(sessions[id])

\* the value of getSession (lines 178-182)
GetSessionResult(id) == IF ~Found(id) THEN Null ELSE ToPublic(sessions[id])

\* getSession (lines 178-182)
GetSession(id) ==
  /\ op' = [name |-> "getSession", id |-> id, result |-> GetSessionResult(id)]
  /\ UNCHANGED <<sessions, proc, chunks, lastChunk, polled>>
  /\ UNCHANGED <<hostVars, workerVars, serviceVars>>

\* as WriteOutcome, were the pipe looked at before the exit
WriteOutcome_PipeFirst(id) ==
  CASE ~Found(id) -> "notFound"
    [] proc[id].stdin # "open" -> "stdinNotWritable"
    [] sessions[id].exited -> "exited"
    [] OTHER -> "ok"

\* lines 205-208 of writeToSession: what the call comes to
WriteOutcome(id) ==
  CASE ~Found(id) -> "notFound"
    [] sessions[id].exited -> "exited"
    [] proc[id].stdin # "open" -> "stdinNotWritable"
    [] OTHER -> "ok"

\* writeToSession (lines 204-210): written counts the data handed to the
\* input pipe of the child
WriteToSession(id) ==
  /\ WriteOutcome(id) = "ok" => proc[id].written < MaxWrites
  /\ op' = [name |-> "writeToSession", id |-> id,
            result |-> IF WriteOutcome(id) = "ok" THEN Returned
                       ELSE Thrown(WriteOutcome(id))]
  /\ proc' = IF WriteOutcome(id) = "ok"
               THEN [proc EXCEPT ![id].written = @ + 1]
               ELSE proc
  /\ UNCHANGED <<sessions, chunks, lastChunk, polled>>
  /\ UNCHANGED <<hostVars, workerVars, serviceVars>>

\* the input pipe of a running child stops being writable: the child closed
\* its standard input, or the pipe was ended
StdinCloses(id) ==
  /\ Found(id)
  /\ proc[id].st \in {"running", "term", "killed"}
  /\ proc[id].stdin = "open"
  /\ proc' = [proc EXCEPT ![id].stdin = "closed"]
  /\ UNCHANGED <<sessions, op, chunks, lastChunk, polled>>
  /\ UNCHANGED <<hostVars, workerVars, serviceVars>>

(* ----------------------------- resolveModel ---------------------------- *)

\* the model names of a registry file
Models == {"safe/global", "safe/alt", "forbidden/model"}

\* a model entry that is absent, or blank
None == "none"

\* the model registry files: model is the raw global entry, allowlist the
\* filtered list; group and user are the models of the caller's per_group and
\* per_user entries
Registries ==
  [model : Models \cup {None}, allowlist : SUBSET Models,
   group : Models \cup {None}, user : Models \cup {None}]

\* the arguments of resolveModel and what matchRoutingRule finds for them:
\* userRule and groupRule are the models of the first rule of the user's
\* and of the group's entry that matches the message
Callers ==
  [defaultModel : {"fallback/model"}, hasUser : BOOLEAN, hasText : BOOLEAN,
   userRule : Models \cup {None}, groupRule : Models \cup {None}]

\* loadModelRegistry, line 940: the global model, the default where the file
\* names none
GlobalModel(reg, caller) ==
  IF reg.model = None THEN caller.defaultModel ELSE reg.model

\* lines 976-987: the global model, overridden by the group's, overridden by
\* the user's
StaticModel(reg, caller) ==
  IF caller.hasUser /\ reg.user # None THEN reg.user
  ELSE IF reg.group # None THEN reg.group
  ELSE GlobalModel(reg, caller)

\* as Allowed, were every model let through
Allowed_Always(reg, m) == TRUE

\* lines 989 and 1005: the allowlist is empty or holds the model
Allowed(reg, m) == reg.allowlist = {} \/ m \in reg.allowlist

\* lines 989-991: an override the allowlist does not hold gives way to the
\* global model
CheckedModel(reg, caller) ==
  IF Allowed(reg, StaticModel(reg, caller))
    THEN StaticModel(reg, caller)
    ELSE GlobalModel(reg, caller)

\* lines 995-1003: the rule of the user's entry that matches, else that of
\* the group's entry
MatchedRule(caller) ==
  IF ~caller.hasText THEN None
  ELSE IF caller.hasUser /\ caller.userRule # None THEN caller.userRule
  ELSE caller.groupRule

\* what resolveModel returns (lines 1004-1014)
Resolution(reg, caller) ==
  IF MatchedRule(caller) # None /\ Allowed(reg, MatchedRule(caller))
    THEN [model |-> MatchedRule(caller), matchedRule |-> MatchedRule(caller)]
    ELSE [model |-> CheckedModel(reg, caller), matchedRule |-> None]

\* a call that has not returned yet
Pending == [pending |-> TRUE]

\* a call of resolveModel with some registry file in place
ModelInit ==
  resolved \in [registry : Registries, caller : Callers, result : {Pending}]

\* resolveModel (lines 969-1015)
ResolveModel ==
  /\ resolved.result = Pending
  /\ resolved' = [resolved EXCEPT
                    !.result = Resolution(resolved.registry, resolved.caller)]
  /\ UNCHANGED <<hostVars, workerVars, registryVars, schedulerVars, webhookVars>>

(* ------------------------------- runTask ------------------------------- *)

\* Math.min
Min(a, b) == IF a <= b THEN a ELSE b

\* Math.pow
Pow(b, e) == b ^ e

\* the schedules of a task: a cron expression or an interval, which may be
\* invalid, or a single run
Schedules ==
  {[schedule_type |-> "cron", valid |-> TRUE],
   [schedule_type |-> "cron", valid |-> FALSE],
   [schedule_type |-> "interval", valid |-> TRUE],
   [schedule_type |-> "interval", valid |-> FALSE],
   [schedule_type |-> "once", valid |-> TRUE]}

\* a run instant
At(n) == [at |-> n]

\* a task is stored with no retries behind it, to run at once
CreateTask(sched) ==
  /\ task = NoTask
  /\ task' = [schedule_type |-> sched.schedule_type, valid |-> sched.valid,
              status |-> "active", next_run |-> At(clock), retry_count |-> 0]
  /\ UNCHANGED <<runLog, clock, resolved, webhookVars>>
  /\ UNCHANGED <<hostVars, workerVars, registryVars>>

\* time passes
Tick ==
  /\ clock < MaxClock
  /\ clock' = clock + 1
  /\ UNCHANGED <<task, runLog, resolved, webhookVars>>
  /\ UNCHANGED <<hostVars, workerVars, registryVars>>

\* getDueTasks and the re-check of the loop (lines 201-210): the task is
\* active and its next run is not in the future
Due ==
  /\ task # NoTask
  /\ task.status = "active"
  /\ task.next_run # Null
  /\ task.next_run.at <= clock

\* lines 155-161 and 162-169: the schedule cannot be evaluated
ScheduleError(t) == t.schedule_type \in {"cron", "interval"} /\ ~t.valid

\* lines 152-169: the next run of the regular schedule; none for a single
\* run or an invalid schedule
ScheduleNextRun(t, now) ==
  CASE t.schedule_type = "cron" /\ t.valid ->
         At(((now \div SchedulePeriod) + 1) * SchedulePeriod)
    [] t.schedule_type = "interval" /\ t.valid -> At(now + SchedulePeriod)
    [] OTHER -> Null

\* lines 171-173: a schedule error makes the run an error
Failed(t, runError) == runError \/ ScheduleError(t)

\* as CanRetry, were the limit itself still retried
CanRetry_Inclusive(retryCount) == retryCount <= TASK_MAX_RETRIES

\* line 178
CanRetry(retryCount) == retryCount < TASK_MAX_RETRIES

\* line 180, with the count already incremented
Backoff(retryCount) ==
  Min(TASK_RETRY_MAX_MS, TASK_RETRY_BASE_MS * Pow(2, retryCount - 1))

\* lines 176-185: the retry count handed to updateTaskAfterRun
RetryCount(t, error) ==
  IF error
    THEN IF CanRetry(t.retry_count) THEN t.retry_count + 1 ELSE t.retry_count
    ELSE 0

\* lines 175-185: the next run handed to updateTaskAfterRun
NextRun(t, error, now) ==
  IF error /\ CanRetry(t.retry_count)
    THEN At(now + Backoff(t.retry_count + 1))
    ELSE ScheduleNextRun(t, now)

\* updateTaskAfterRun (line 188): the next run and the retry count are stored
UpdateTaskAfterRun(t, nextRun, retryCount) ==
  [t EXCEPT !.next_run = nextRun, !.retry_count = retryCount]

\* updateTask (lines 190-192): a task whose schedule is invalid is paused
Paused(t) ==
  IF ScheduleError(t)
    THEN [t EXCEPT !.status = "paused", !.next_run = Null]
    ELSE t

\* the entry logTaskRun records (lines 40-47 and 142-149)
LogEntry(status, error) == [run_at |-> clock, status |-> status, error |-> error]

\* runTask (lines 28-193), for a due task: registered tells whether the group
\* of the task is registered, runError whether the agent run failed
RunTask(registered, runError) ==
  /\ Due
  /\ Len(runLog) < MaxRuns
  /\ IF ~registered
       THEN /\ runLog' = Append(runLog, LogEntry("error", "groupNotFound"))
            /\ UNCHANGED task
       ELSE /\ runLog' = Append(runLog,
                            IF runError THEN LogEntry("error", "agent")
                                        ELSE LogEntry("success", "none"))
            /\ task' = Paused(UpdateTaskAfterRun(task,
                                 NextRun(task, Failed(task, runError), clock),
                                 RetryCount(task, Failed(task, runError))))
  /\ UNCHANGED <<clock, resolved, webhookVars>>
  /\ UNCHANGED <<hostVars, workerVars, registryVars>>

(* --------------------------- webhook server ---------------------------- *)

\* config.token; the server is started only with a non-empty token
ConfigToken == "secret"

\* the folders of the registered groups
RegisteredFolders == {<<"main">>}

\* request urls, as the pieces the handler tells apart
Urls ==
  {<<"/webhook/", "health">>, <<"/webhook/", "main">>,
   <<"/webhook/", "main", "/">>, <<"/webhook/", "ghost">>, <<"/webhook/">>,
   <<"/webhook/", "/">>, <<"/other">>}

\* the authorization header: absent, or its pieces
NoHeader == <<>>
Auths ==
  {NoHeader, <<"Bearer ", ConfigToken>>, <<"Bearer ", "wrong">>, <<ConfigToken>>}

\* the values of a message field: absent, a string of some length, a number
Missing == [type |-> "undefined"]
Str(n) == [type |-> "string", length |-> n]
Num(v) == [type |-> "number", value |-> v]

\* request bodies: text that is no JSON, the JSON texts null and 5, and
\* objects with a message field or without
Bodies ==
  {[json |-> "invalid"], [json |-> "null"], [json |-> "primitive"]}
    \cup {[json |-> "object", message |-> m] : m \in {Missing, Str(0), Str(2), Num(5)}}

HookRequests ==
  [method : {"GET", "POST"}, url : Urls, authorization : Auths, body : Bodies]

\* url.startsWith('/webhook/')
UnderWebhook(url) == url[1] = "/webhook/"

\* line 43: the health check
IsHealthCheck(req) == req.url = <<"/webhook/", "health">> /\ req.method = "GET"

\* line 58: the header is there and is Bearer followed by the token
Authorized(req) ==
  req.authorization # NoHeader /\ req.authorization = <<"Bearer ", ConfigToken>>

\* line 64: the url without its /webhook/ prefix and without a trailing slash
GroupFolder(url) ==
  LET rest == Tail(url)
  IN IF rest # <<>> /\ rest[Len(rest)] = "/"
       THEN SubSeq(rest, 1, Len(rest) - 1)
       ELSE rest

\* lines 81-88: JSON.parse throws on text that is no JSON
ParseThrows(body) == body.json = "invalid"

\* line 90: reading body.message throws when the body parsed to null
MessageThrows(body) == body.json = "null"

\* body.message: undefined unless the body is an object that has one
MessageOf(body) == IF body.json = "object" THEN body.message ELSE Missing

\* line 90: the message is truthy and a string
HasMessage(m) == m.type = "string" /\ m.length > 0

Status(code) == [status |-> code]
\* the handler's promise rejects before anything is written to the response
NoResponse == [unanswered |-> TRUE]

\* the response of the request handler (lines 39-153), and whether it
\* invoked executeAgentRun; runOk tells how that call settled
Handled(req, runOk) ==
  CASE IsHealthCheck(req) -> [response |-> Status(200), started |-> FALSE]
    [] ~IsHealthCheck(req) /\ (req.method # "POST" \/ ~UnderWebhook(req.url)) ->
         [response |-> Status(404), started |-> FALSE]
    [] OTHER ->
         IF ~Authorized(req)
           THEN [response |-> Status(401), started |-> FALSE]
         ELSE IF GroupFolder(req.url) = <<>>
           THEN [response |-> Status(400), started |-> FALSE]
         ELSE IF GroupFolder(req.url) \notin RegisteredFolders
           THEN [response |-> Status(404), started |-> FALSE]
         ELSE IF ParseThrows(req.body)
           THEN [response |-> Status(400), started |-> FALSE]
         ELSE IF MessageThrows(req.body)
           THEN [response |-> NoResponse, started |-> FALSE]
         ELSE IF ~HasMessage(MessageOf(req.body))
           THEN [response |-> Status(400), started |-> FALSE]
         ELSE [response |-> Status(IF runOk THEN 200 ELSE 500), started |-> TRUE]

\* the server handles a request
HandleRequest(req, runOk) ==
  /\ hook' = [request |-> req, response |-> Handled(req, runOk).response,
              started |-> Handled(req, runOk).started]
  /\ UNCHANGED <<resolved, schedulerVars>>
  /\ UNCHANGED <<hostVars, workerVars, registryVars>>

(* ---------------------------- specification ---------------------------- *)

Next ==
  \/ \E c \in Calls : \E ul \in LockFlags(CallerOf(c)) : Call(c, ul)
  \/ \E c \in Calls : ContextBuilt(c)
  \/ \E c \in Calls : ContextFails(c)
  \/ \E c \in Calls : SemGrant(c)
  \/ \E c \in Calls : LockGrant(c)
  \/ \E c \in Calls : SandboxAnswer(c)
  \/ \E c \in Calls, o \in RunOutcomes : RunComplete(c, o)
  \/ \E c \in Calls : RunTimeout(c)
  \/ \E c \in Calls : LockRelease(c)
  \/ \E c \in Calls : SemRelease(c)
  \/ \E c \in Calls : \E ps \in PersistFlags(CallerOf(c)) : Complete(c, ps)

Spec == Init /\ [][Next]_vars

\* steps of a call that the host's event loop or timers take by themselves:
\* promise continuations, grants by the lock and the semaphore, the poll of
\* the response area with its deadline. Whether a call is issued and whether
\* the sandbox ever answers is left to the environment.
Progress(c) ==
  \/ ContextBuilt(c)
  \/ ContextFails(c)
  \/ SemGrant(c)
  \/ LockGrant(c)
  \/ \E o \in RunOutcomes : RunComplete(c, o)
  \/ RunTimeout(c)
  \/ LockRelease(c)
  \/ SemRelease(c)
  \/ \E ps \in PersistFlags(CallerOf(c)) : Complete(c, ps)

FairSpec == Spec /\ \A c \in Calls : WF_vars(Progress(c))

WorkerNext ==
  \/ \E r \in Requests : StageRequest(r)
  \/ \E r \in Requests, k \in PayloadKinds : PlaceRequest(r, k)
  \/ \E o \in Orders(Listed) : BeginCycle(o)
  \/ AcceptFile
  \/ RejectFile
  \/ \E out \in {"outputSuccess", "outputError"} : AgentReturns(out)
  \/ AgentThrows
  \/ FinishWrite
  \/ Unlink
  \/ EndCycle
  \/ Wake
  \/ \E r \in Requests : HostPoll(r)

WorkerSpec == Init /\ [][WorkerNext]_vars

\* the daemon loop runs on by itself and runAgentOnce settles; whether the
\* host places a request is left to the environment
WorkerProgress ==
  \/ \E o \in Orders(Listed) : BeginCycle(o)
  \/ AcceptFile
  \/ RejectFile
  \/ \E out \in {"outputSuccess", "outputError"} : AgentReturns(out)
  \/ AgentThrows
  \/ FinishWrite
  \/ Unlink
  \/ EndCycle
  \/ Wake

FairWorkerSpec == WorkerSpec /\ WF_vars(WorkerProgress)

\* the worker loop in an environment that crashes the worker and makes
\* unlinkSync fail, MaxFaults times in all
FaultNext ==
  \/ WorkerNext
  \/ UnlinkFails
  \/ Crash

FaultSpec == Init /\ [][FaultNext]_vars

FairFaultSpec == FaultSpec /\ WF_vars(WorkerProgress)

\* whether signalling the process group of a child succeeds; it does unless
\* the environment makes process.kill throw
GroupSignalling == {TRUE}

\* the outcomes of process.kill(-pid, sig): delivered, or thrown
SignalOutcomes == BOOLEAN

\* the registry under the calls of the tool layer and the exits, errors and
\* timers of the subprocesses
RegistryNext ==
  \/ \E t \in TimeoutOpts : StartProcess(t)
  \/ \E id \in Ids : ProcessCloses(id)
  \/ \E id \in Ids : ProcessError(id)
  \/ \E id \in Ids, ok \in GroupSignalling : TimerFires(id, ok)
  \/ \E id \in Resident, sig \in {"none", "SIGKILL"}, ok \in GroupSignalling :
       KillSession(id, sig, ok)
  \/ \E id \in Resident, ok \in GroupSignalling : RemoveSession(id, ok)
  \/ \E ok \in GroupSignalling : CleanupAllSessions(ok)

RegistrySpec == Init /\ [][RegistryNext]_vars

\* startProcess, for the sessions whose output is followed
StartBuffered(t) ==
  /\ Cardinality(Resident) < MaxBuffered
  /\ StartProcess(t)

\* the sessions under the output, exits, errors and timers of their
\* subprocesses
BufferNext ==
  \/ \E t \in TimeoutOpts : StartBuffered(t)
  \/ \E id \in Ids, stream \in Streams, text \in Chunks : OutputChunk(id, stream, text)
  \/ \E id \in Ids : ProcessCloses(id)
  \/ \E id \in Ids : ProcessError(id)
  \/ \E id \in Ids, ok \in SignalOutcomes : TimerFires(id, ok)

BufferSpec == Init /\ [][BufferNext]_vars

\* the 'close' event of a child that was sent SIGKILL
KilledCloses(id) == proc[id].st = "killed" /\ ProcessCloses(id)

\* a process that was sent SIGKILL ends, and its 'close' event is delivered
FairBufferSpec == BufferSpec /\ \A id \in Ids : WF_vars(KilledCloses(id))

\* the sessions under output and exits, read by pollSession and getLog
PollNext ==
  \/ \E t \in TimeoutOpts : StartBuffered(t)
  \/ \E id \in Ids, text \in Chunks : OutputChunk(id, "stdout", text)
  \/ \E id \in Ids : ProcessCloses(id)
  \/ \E id \in Resident : PollSession(id)
  \/ \E id \in Resident, offset \in LogOffsets, limit \in LogLimits :
       GetLog(id, offset, limit)

PollSpec == Init /\ [][PollNext]_vars

\* startProcess, for the sessions followed through every operation
StartFollowed(t) ==
  /\ Cardinality({i \in Ids : proc[i].st # "unspawned"}) < MaxStarted
  /\ StartProcess(t)

\* every operation of the registry that takes an id, called with resident,
\* removed and never issued ids, under the exits and errors of the children
ToolNext ==
  \/ \E t \in TimeoutOpts : StartFollowed(t)
  \/ \E id \in Ids : ProcessCloses(id)
  \/ \E id \in Ids : ProcessError(id)
  \/ \E id \in Ids : StdinCloses(id)
  \/ \E id \in Ids : GetSession(id)
  \/ \E id \in Ids : PollSession(id)
  \/ \E id \in Ids : GetLog(id, Omitted, Omitted)
  \/ \E id \in Ids : WriteToSession(id)
  \/ \E id \in Ids, sig \in KillSignals, ok \in SignalOutcomes :
       KillSession(id, sig, ok)
  \/ \E id \in Ids, ok \in SignalOutcomes : RemoveSession(id, ok)

ToolSpec == Init /\ [][ToolNext]_vars

\* resolveModel under every registry file and caller
ModelNext == ResolveModel

\* every registry file and caller, before the call
ModelStart ==
  /\ HostInit /\ WorkerInit /\ RegistryInit
  /\ ModelInit /\ SchedulerInit /\ WebhookInit

ModelSpec == ModelStart /\ [][ModelNext]_vars

\* a task under the scheduler loop, as time passes
SchedulerNext ==
  \/ \E sched \in Schedules : CreateTask(sched)
  \/ Tick
  \/ \E registered \in BOOLEAN, runError \in BOOLEAN : RunTask(registered, runError)

SchedulerSpec == Init /\ [][SchedulerNext]_vars

\* the webhook server under every request
WebhookNext == \E req \in HookRequests, runOk \in BOOLEAN : HandleRequest(req, runOk)

WebhookSpec == Init /\ [][WebhookNext]_vars

(* ------------------------------- claims -------------------------------- *)

InFlight(c) == pc[c] = "running"
HoldsPermit(c) == semAcq[c] > semRel[c]
Waiting(c) == pc[c] \in {"semWait", "lockWait"}
SameGroup(c, d) == c # d /\ GroupOf(c) = GroupOf(d)
\* calls whose caller is part of the source: runTask and the webhook handler
Tracked(c) == CallerOf(c) \in {"scheduler", "webhook"}

\* C1 as stated: two runs of the same group are never in flight together,
\* whatever flags the calls were made with.
C1_OneRunPerGroup ==
  \A c, d \in Calls : SameGroup(c, d) => ~(InFlight(c) /\ InFlight(d))

\* C1: among the calls made with useGroupLock not false, at most one run per
\* group is in flight at any instant.
C1_OneLockedRunPerGroup ==
  \A c, d \in Calls :
    (SameGroup(c, d) /\ useLock[c] /\ useLock[d]) => ~(InFlight(c) /\ InFlight(d))

C1_Witness ==
  \E c, d \in Calls :
    /\ SameGroup(c, d) /\ useLock[c] /\ useLock[d]
    /\ InFlight(c) /\ pc[d] = "lockWait"

\* C2: at most Capacity runs are in flight; every run in flight holds a
\* permit and at most Capacity permits are out, so a call beyond the
\* capacity starts only after a permit has been released.
C2_AtMostCapacity ==
  /\ Cardinality({c \in Calls : InFlight(c)}) <= Capacity
  /\ \A c \in Calls : InFlight(c) => HoldsPermit(c)
  /\ Cardinality({c \in Calls : HoldsPermit(c)}) = semActive
  /\ semActive <= Capacity

C2_Witness ==
  /\ Cardinality({c \in Calls : InFlight(c)}) = Capacity
  /\ \E c \in Calls : pc[c] = "semWait"

\* C3 as stated: the lock is taken before the permit, so a call waiting for
\* a busy group lock holds no permit.
C3_NoPermitWhileLockBusy ==
  \A c \in Calls :
    (pc[c] = "lockWait" /\ lockHolder[GroupOf(c)] # NoCall) => ~HoldsPermit(c)

\* C4: a settled run has released its permit and its lock once each, no
\* call acquires or releases twice, and once no call is under way every
\* lock and every permit is free.
C4_ReleasedOnce ==
  /\ \A c \in Calls :
       /\ semAcq[c] <= 1 /\ semRel[c] <= semAcq[c]
       /\ lockAcq[c] <= 1 /\ lockRel[c] <= lockAcq[c]
       /\ pc[c] \in {"resumed", "done"} =>
            /\ semRel[c] = semAcq[c]
            /\ lockRel[c] = lockAcq[c]
            /\ outcome[c] # "none" => semAcq[c] = 1
            /\ (outcome[c] # "none" /\ useLock[c]) => lockAcq[c] = 1
  /\ (\A c \in Calls : pc[c] \in {"idle", "done"}) =>
       /\ semActive = 0
       /\ \A g \in Groups : lockHolder[g] = NoCall

C4_Witness ==
  /\ \A c \in Calls : pc[c] = "done"
  /\ \E c \in Calls : outcome[c] = "timeout" /\ lockRel[c] = 1 /\ semRel[c] = 1
  /\ \E c \in Calls : outcome[c] = "fault" /\ semRel[c] = 1
  /\ \E c \in Calls : outcome[c] \in {"ok", "okSid"} /\ semRel[c] = 1

\* C5: every call waiting for a permit or for the group lock is eventually
\* admitted, that is, its run starts.
C5_WaitersAdmitted == \A c \in Calls : Waiting(c) ~> InFlight(c)

C5_Witness ==
  \E c, d \in Calls :
    /\ pc[c] = "lockWait" /\ lockHolder[GroupOf(c)] \notin {NoCall, c}
    /\ pc[d] = "semWait" /\ semActive = Capacity

C8_SessionUpdate ==
  /\ \A c \in Calls :
       sessionWrites[c] =
         IF pc[c] = "done" /\ outcome[c] = "okSid" /\ persist[c] THEN 1 ELSE 0
  /\ \A g \in Groups :
       /\ session[g] = cbSession[g]
       /\ session[g] = "s1" <=>
            \E c \in Calls : GroupOf(c) = g /\ sessionWrites[c] = 1
       /\ session[g] \in {"s0", "s1"}

C8_Witness ==
  \E c, d \in Calls :
    /\ pc[c] = "done" /\ outcome[c] = "okSid" /\ persist[c]
    /\ session[GroupOf(c)] = "s1"
    /\ pc[d] = "done" /\ outcome[d] = "okSid" /\ ~persist[d]
    /\ session[GroupOf(d)] = "s0"

\* C9: a run in flight always settles, the sandbox answering or not, and a
\* run that met its deadline makes the call fail with an AgentExecutionError.
C9_RunSettles ==
  /\ \A c \in Calls : InFlight(c) ~> (pc[c] = "done")
  /\ [](\A c \in Calls :
         (pc[c] = "done" /\ outcome[c] = "timeout") =>
            result[c] = "AgentExecutionError")

C9_Witness ==
  \E c \in Calls :
    /\ pc[c] = "done" /\ outcome[c] = "timeout"
    /\ result[c] = "AgentExecutionError"
    /\ respFile[c]

\* C10: a well-formed request is executed once and answered once, its file
\* is removed, and it is not processed again; every pending well-formed
\* request gets there.
C10_RoundTrip ==
  /\ [](\A r \in Requests :
         /\ wExecs[r] <= 1
         /\ wRespWrites[r] <= 1
         /\ wReq[r] = "removed" =>
              /\ wRespWrites[r] = 1
              /\ wResp[r] # "none"
              /\ Accepted(wKind[r]) => wExecs[r] = 1)
  /\ \A r \in Requests :
       (wReq[r] = "pending" /\ Accepted(wKind[r])) ~>
         (wReq[r] = "removed" /\ wExecs[r] = 1 /\ wRespWrites[r] = 1)

C10_Witness ==
  \E r, q \in Requests :
    /\ Accepted(wKind[r]) /\ wReq[r] = "removed"
    /\ wResp[r] = "outputSuccess" /\ wExecs[r] = 1 /\ wRespWrites[r] = 1
    /\ wReq[q] = "pending" /\ wpc = "sleep"

\* the file the for loop of processRequests is at
Current == Head(wTodo)

C12_BeatAfterDrain == wpc = "sleep" => wBeat = "fresh"

\* C12: in every iteration the heartbeat is written at the top, before the
\* request area is listed and drained, and not between the drain and the
\* sleep; the iteration (heartbeat, drain, sleep) repeats for ever.
C12_BeatBeforeDrain ==
  /\ [](wpc \in {"work", "exec", "writing", "written"} => wBeat = "fresh")
  /\ [](wpc = "sleep" => wBeat = "drained")
  /\ []<>(wpc = "work")
  /\ []<>(wpc = "sleep")

C12_Witness ==
  /\ wpc = "sleep" /\ wBeat = "drained"
  /\ \E r \in Requests : wReq[r] = "removed"

\* C13 as stated: responses are written to a temporary path and renamed, so
\* the host never reads a response file that holds a part of the record only.
C13_NoPartialRead == \A r \in Requests : wSeen[r] # "partial"

Occurrences(marker, buf) ==
  Cardinality({p \in 1..(Len(buf) - Len(marker) + 1) :
                 \A k \in 1..Len(marker) : buf[p + k - 1] = marker[k]})

\* the last n characters of a buffer
LastChars(buf, n) == SubSeq(buf, Len(buf) - n + 1, Len(buf))

Least(a, b) == IF a <= b THEN a ELSE b

\* a step in which startProcess was called
StartStep == op' # op /\ op'.name = "startProcess"

\* a step in which a chunk arrived for session i
ChunkStep(i) == chunks' = chunks + 1 /\ lastChunk'.id = i

\* C15: whatever startProcess, removeSession, cleanupAllSessions, process
\* exits, process errors and timer expiries have occurred, at most
\* maxSessions sessions are resident.
C15_ResidentBounded == Cardinality(Resident) <= MaxSessions

C15_Witness ==
  /\ Cardinality(Resident) = MaxSessions
  /\ \E i \in Resident : sessions[i].exited
  /\ \E i \in Resident : sessions[i].timer = "fired"
  /\ \E i \in Ids \ Resident : proc[i].st # "unspawned"

\* C16: startProcess raises the capacity error exactly when the resident
\* count is at least maxSessions, and then spawns nothing and leaves the
\* registry as it was; otherwise it spawns a child and registers one new
\* session, so a start that follows a removal below the capacity succeeds.
C16_CapacityExceeded ==
  [][StartStep =>
       /\ (op'.result = Thrown("capacity")) <=> (Cardinality(Resident) >= MaxSessions)
       /\ (op'.result = Thrown("capacity")) => (sessions' = sessions /\ proc' = proc)
       /\ (op'.result = Returned) =>
            /\ op'.id \notin Resident
            /\ Resident' = Resident \cup {op'.id}
            /\ proc[op'.id].st = "unspawned" /\ proc'[op'.id].st = "running"
            /\ \A i \in Resident : sessions'[i] = sessions[i]]_vars

C16_Witness ==
  /\ op.name = "startProcess" /\ op.result = Thrown("capacity")
  /\ Cardinality(Resident) = MaxSessions
  /\ \E i \in Ids \ Resident : proc[i].st # "unspawned"

\* C17 as stated: a session's buffer is never longer than maxOutputBytes
\* plus the truncation marker.
C17_BufferBounded ==
  \A i \in Resident :
    Len(sessions[i].stdout) <= MaxOutputBytes + Len(TruncationMarker)

\* C17: a session's buffer, counted in characters, is never longer than
\* maxOutputBytes plus the markers it holds: the truncation marker, the
\* timeout marker and the process-error marker, each at most once.
C17_BufferBoundedWithMarkers ==
  \A i \in Resident :
    /\ Occurrences(TruncationMarker, sessions[i].stdout) <= 1
    /\ Occurrences(TimeoutMarker, sessions[i].stdout) <= 1
    /\ Occurrences(ErrorMarker, sessions[i].stdout) <= 1
    /\ Len(sessions[i].stdout) <=
         MaxOutputBytes
           + Occurrences(TruncationMarker, sessions[i].stdout) * Len(TruncationMarker)
           + Occurrences(TimeoutMarker, sessions[i].stdout) * Len(TimeoutMarker)
           + Occurrences(ErrorMarker, sessions[i].stdout) * Len(ErrorMarker)

C17_Witness ==
  \E i \in Resident :
    /\ sessions[i].truncated
    /\ Len(sessions[i].stdout) =
         MaxOutputBytes + Len(TruncationMarker) + Len(TimeoutMarker)

\* C18: the buffer holds the truncation marker once when the truncated flag
\* is set and not at all when it is clear; the flag is set by a chunk that
\* would take the buffer over the byte cap, by the first such chunk, and is
\* never cleared.
C18_OneMarker ==
  /\ [](\A i \in Resident :
         Occurrences(TruncationMarker, sessions[i].stdout) =
           (IF sessions[i].truncated THEN 1 ELSE 0))
  /\ [][\A i \in Resident \cap Resident' :
         /\ sessions[i].truncated => sessions'[i].truncated
         /\ (~sessions[i].truncated /\ sessions'[i].truncated) =>
              /\ ChunkStep(i)
              /\ ByteLength(sessions[i].stdout) + ByteLength(lastChunk'.text)
                   > MaxOutputBytes
         /\ (/\ ChunkStep(i)
             /\ ~sessions[i].truncated
             /\ ByteLength(sessions[i].stdout) + ByteLength(lastChunk'.text)
                  > MaxOutputBytes) => sessions'[i].truncated]_vars

C18_Witness ==
  \E i \in Resident :
    /\ sessions[i].truncated /\ chunks = MaxChunks /\ lastChunk.id = i
    /\ Occurrences(TimeoutMarker, sessions[i].stdout) = 1
    /\ Occurrences(TruncationMarker, sessions[i].stdout) = 1

\* the room left under the byte cap
Room(s) ==
  IF MaxOutputBytes - ByteLength(s.stdout) > 0
    THEN MaxOutputBytes - ByteLength(s.stdout) ELSE 0

\* C19 as stated: a chunk is appended whole while the buffer stays within
\* the cap; the first chunk that would exceed the cap is cut to the room
\* that is left, the longest part of it that fits, and the marker follows;
\* a chunk for a truncated session changes nothing.
C19_ChunkCutToRoom ==
  [][\A i \in Resident \cap Resident' :
       ChunkStep(i) =>
         /\ sessions[i].truncated => sessions'[i] = sessions[i]
         /\ (/\ ~sessions[i].truncated
             /\ ByteLength(sessions[i].stdout) + ByteLength(lastChunk'.text)
                  <= MaxOutputBytes) =>
              sessions'[i].stdout = sessions[i].stdout \o lastChunk'.text
         /\ (/\ ~sessions[i].truncated
             /\ ByteLength(sessions[i].stdout) + ByteLength(lastChunk'.text)
                  > MaxOutputBytes) =>
              \E n \in 0..Len(lastChunk'.text) :
                /\ sessions'[i].stdout =
                     sessions[i].stdout \o SubSeq(lastChunk'.text, 1, n)
                       \o TruncationMarker
                /\ ByteLength(SubSeq(lastChunk'.text, 1, n)) <= Room(sessions[i])
                /\ n < Len(lastChunk'.text) =>
                     ByteLength(SubSeq(lastChunk'.text, 1, n + 1))
                       > Room(sessions[i])]_vars

\* C20: a session's tail is the last min(500, length) characters of its
\* buffer, whatever was appended last: output, the truncation marker, the
\* timeout marker or the process-error marker.
C20_TailIsBufferEnd ==
  \A i \in Resident :
    /\ Len(sessions[i].tail) <= 500
    /\ sessions[i].tail =
         LastChars(sessions[i].stdout, Least(500, Len(sessions[i].stdout)))

C20_Witness ==
  \E i \in Resident :
    /\ Len(sessions[i].stdout) > 500
    /\ sessions[i].truncated
    /\ LastChars(sessions[i].tail, Len(ErrorMarker)) = ErrorMarker
    /\ Occurrences(TimeoutMarker, sessions[i].tail) = 1

\* a step in which pollSession was called on session i
PollStep(i) ==
  /\ op'.name = "pollSession" /\ op'.id = i
  /\ op'.name # op.name \/ op' # op \/ polled' # polled

\* C21: a poll returns the part of the buffer between the cursor the
\* previous poll left and the end of the buffer, and moves the cursor to that
\* end; the cursor never decreases and never exceeds the length of the
\* buffer, and the results of the polls of a session, concatenated, are the
\* buffer up to the cursor.
C21_PollAdvances ==
  /\ [](\A i \in Resident :
         /\ sessions[i].pollCursor <= Len(sessions[i].stdout)
         /\ polled[i] = SubSeq(sessions[i].stdout, 1, sessions[i].pollCursor))
  /\ [][\A i \in Resident \cap DOMAIN sessions' :
          /\ sessions'[i].pollCursor >= sessions[i].pollCursor
          /\ PollStep(i) =>
               /\ op'.result.newOutput =
                    SubSeq(sessions[i].stdout, sessions[i].pollCursor + 1,
                           Len(sessions[i].stdout))
               /\ sessions'[i].pollCursor = Len(sessions[i].stdout)
               /\ sessions'[i].stdout = sessions[i].stdout]_vars

C21_Witness ==
  \E i \in Resident :
    /\ op.name = "pollSession" /\ op.id = i
    /\ op.result.newOutput # <<>>
    /\ Len(polled[i]) > Len(op.result.newOutput)
    /\ sessions[i].truncated
    /\ sessions[i].pollCursor = Len(sessions[i].stdout)

\* C22: a session that has exited stays exited, so every poll after the
\* exit reports exited; the first poll after the exit returns the output not
\* yet seen and leaves nothing unseen, and a poll of an exited session with
\* nothing unseen returns the empty text.
C22_ExitedSticks ==
  /\ [][\A i \in Resident \cap DOMAIN sessions' :
          /\ sessions[i].exited => sessions'[i].exited
          /\ (PollStep(i) /\ sessions[i].exited) =>
               /\ op'.result.exited
               /\ op'.result.newOutput =
                    SubSeq(sessions[i].stdout, Len(polled[i]) + 1,
                           Len(sessions[i].stdout))
               /\ Len(polled'[i]) = Len(sessions'[i].stdout)
               /\ (op.name = "pollSession" /\ op.id = i /\ op.result.exited
                   /\ Len(sessions[i].stdout) = Len(polled[i])) =>
                    op'.result.newOutput = <<>>]_vars
  /\ [](\A i \in Resident :
         (op.name = "pollSession" /\ op.id = i /\ op.result.exited) =>
           sessions[i].exited)

C22_Witness ==
  \E i \in Resident :
    /\ sessions[i].exited
    /\ op.name = "pollSession" /\ op.id = i
    /\ op.result.exited /\ op.result.newOutput = <<>>
    /\ polled[i] = sessions[i].stdout /\ polled[i] # <<>>

\* a session as it is before any poll
Unpolled(s) == [s EXCEPT !.pollCursor = 0]

\* a step in which getLog was called on session i
LogStep(i) ==
  /\ op'.name = "getLog" /\ op'.id = i
  /\ op'.name # op.name \/ op' # op

\* C23: getLog changes neither the poll cursor nor anything else of the
\* registry, returns what it would return had the session never been polled,
\* and the poll that follows it returns what it would have returned without
\* it: the buffer from the cursor of the last poll on.
C23_LogReadsOnly ==
  /\ [][\A i \in Resident :
          LogStep(i) =>
            /\ UNCHANGED <<sessions, proc, polled>>
            /\ op'.result = LogResult(Unpolled(sessions[i]),
                                      op'.args[1], op'.args[2])]_vars
  /\ [][\A i \in Resident :
          (PollStep(i) /\ op.name = "getLog" /\ op.id = i) =>
            polled'[i] = SubSeq(sessions[i].stdout, 1,
                                Len(sessions[i].stdout))]_vars

C23_Witness ==
  \E i \in Resident :
    /\ op.name = "getLog" /\ op.id = i /\ op.args = <<Omitted, Omitted>>
    /\ sessions[i].pollCursor > 0
    /\ sessions[i].pollCursor < Len(sessions[i].stdout)
    /\ op.result.output = sessions[i].stdout

\* a step in which the operation called name was called with id i
Called(name, i) ==
  /\ op'.name = name /\ op'.id = i
  /\ op'.name # op.name \/ op' # op

\* C24: writeToSession raises SessionNotFound for an id that is not
\* resident, SessionExited for a resident session that has exited and
\* StdinNotWritable for a live session whose input pipe is not writable,
\* looked at in this order; in each of the three cases nothing is written and
\* nothing of the registry changes; otherwise the data go to the pipe.
C24_WriteErrors ==
  [][\A i \in Ids :
       Called("writeToSession", i) =>
         /\ i \notin Resident => op'.result = Thrown("notFound")
         /\ (i \in Resident /\ sessions[i].exited) =>
              op'.result = Thrown("exited")
         /\ (i \in Resident /\ ~sessions[i].exited /\ proc[i].stdin # "open") =>
              op'.result = Thrown("stdinNotWritable")
         /\ (i \in Resident /\ ~sessions[i].exited /\ proc[i].stdin = "open") =>
              (op'.result = Returned /\ proc'[i].written = proc[i].written + 1)
         /\ op'.result # Returned => UNCHANGED <<sessions, proc, polled>>]_vars

C24_Witness ==
  /\ op.name = "writeToSession" /\ op.result = Thrown("exited")
  /\ op.id \in Resident /\ proc[op.id].stdin = "closed"
  /\ proc[op.id].written = 1

\* the operations of the registry that take an id
IdOps ==
  {"getSession", "pollSession", "getLog", "writeToSession", "killSession",
   "removeSession"}

\* the call o raised SessionNotFound
RaisedNotFound(o) == o.result = Thrown("notFound")

\* a step in which one of the operations was called with id i
CalledWith(i) == \E name \in IdOps : Called(name, i)

\* C25 as stated: each of getSession, pollSession, getLog, writeToSession,
\* killSession and removeSession, called with an id that is not resident,
\* raises SessionNotFound and leaves the registry as it is.
C25_AllRaiseNotFound ==
  [][\A i \in Ids \ Resident :
       CalledWith(i) =>
         (RaisedNotFound(op') /\ UNCHANGED <<sessions, proc, polled>>)]_vars

\* C25: called with an id that is not resident, a removed one included,
\* getSession returns null and raises nothing, each of pollSession, getLog,
\* writeToSession, killSession and removeSession raises SessionNotFound, and
\* all six leave the registry as it is.
C25_NotFoundOrNull ==
  [][\A i \in Ids \ Resident :
       CalledWith(i) =>
         /\ IF op'.name = "getSession" THEN op'.result = Null
                                       ELSE RaisedNotFound(op')
         /\ UNCHANGED <<sessions, proc, polled>>]_vars

C25_Witness ==
  /\ op.name = "getSession" /\ op.result = Null
  /\ op.id \notin Resident /\ proc[op.id].st # "unspawned"

\* C26: killSession on a session that has not exited sends the signal,
\* SIGTERM when none is named, to the process group first and to the child
\* itself only after the group could not be signalled; it leaves the Map and
\* the record of the session as they are, and on a session that has exited
\* it sends nothing.
C26_KillSignals ==
  [][\A i \in Resident :
       Called("killSession", i) =>
         /\ sessions' = sessions
         /\ \A j \in Ids \ {i} : proc'[j] = proc[j]
         /\ sessions[i].exited => proc' = proc
         /\ ~sessions[i].exited =>
              /\ proc'[i].via \in {<<"group">>, <<"group", "child">>}
              /\ proc[i].st = "running" =>
                   proc'[i].st = IF op'.signal = "SIGKILL" THEN "killed"
                                                            ELSE "term"
              /\ proc'[i].st \in {"term", "killed"}]_vars

C26_Witness ==
  /\ op.name = "killSession" /\ op.id \in Resident
  /\ op.result = Returned /\ op.signal = "none"
  /\ ~sessions[op.id].exited
  /\ proc[op.id].st = "term" /\ proc[op.id].via = <<"group", "child">>

\* C27: removeSession on a resident session sends SIGKILL to its process
\* unless the session has exited, cancels its timer, so that no timer of a
\* session that is not resident is ever pending, takes the id out of the
\* Map, which then holds exactly one session less, and leaves every other
\* session and its process as they are.
C27_Removed ==
  /\ [](\A i \in Ids \ Resident : ~proc[i].timer)
  /\ [][\A i \in Resident :
          Called("removeSession", i) =>
            /\ ~sessions[i].exited => proc'[i].st = "killed"
            /\ sessions[i].exited => proc'[i].st = proc[i].st
            /\ ~proc'[i].timer
            /\ i \notin DOMAIN sessions'
            /\ Cardinality(DOMAIN sessions') = Cardinality(Resident) - 1
            /\ \A j \in Resident \ {i} :
                 /\ j \in DOMAIN sessions'
                 /\ sessions'[j] = sessions[j]
                 /\ proc'[j] = proc[j]]_vars

C27_Witness ==
  /\ op.name = "removeSession" /\ op.result = Returned
  /\ op.id \notin Resident
  /\ proc[op.id].st = "killed" /\ ~proc[op.id].timer
  /\ \E j \in Resident : proc[j].timer /\ ~sessions[j].exited

\* a step in which cleanupAllSessions was called
CleanupStep == op'.name = "cleanupAllSessions" /\ op.name # "cleanupAllSessions"

C29_TimedOutKilled ==
  /\ [](\A i \in Resident :
         /\ Occurrences(TimeoutMarker, sessions[i].stdout) <= 1
         /\ sessions[i].timer = "fired" =>
              Occurrences(TimeoutMarker, sessions[i].stdout) = 1
         /\ Occurrences(TimeoutMarker, sessions[i].stdout) = 1 =>
              /\ proc[i].st \in {"killed", "closed"}
              /\ proc[i].via \in {<<"group">>, <<"group", "child">>})
  /\ [][\A i \in Resident \cap DOMAIN sessions' :
          /\ (Occurrences(TimeoutMarker, sessions'[i].stdout) #
                Occurrences(TimeoutMarker, sessions[i].stdout)) =>
               /\ ~sessions[i].exited
               /\ sessions[i].timer = "armed" /\ sessions'[i].timer = "fired"
               /\ proc'[i].st = "killed"
          /\ (sessions[i].timer = "armed" /\ sessions'[i].timer = "fired") =>
               ~sessions[i].exited]_vars
  /\ \A i \in Ids :
       (i \in Resident /\ sessions[i].timer = "fired") ~>
         (i \in Resident /\ sessions[i].exited)

C29_Witness ==
  \E i \in Resident :
    /\ sessions[i].exited /\ sessions[i].exitSignal = "SIGKILL"
    /\ proc[i].via = <<"group", "child">>
    /\ Occurrences(TimeoutMarker, sessions[i].stdout) = 1

\* C30: a chunk of either pipe goes to the one buffer of the session, behind
\* what the buffer holds: whole while the bytes of the buffer and the chunk
\* are within the cap, and otherwise cut, with the marker behind it and the
\* session truncated; after that the chunks of both pipes are dropped.
C30_OneBuffer ==
  [][\A i \in Resident :
       ChunkStep(i) =>
         LET s == sessions[i]
             text == lastChunk'.text
         IN /\ lastChunk'.stream \in Streams
            /\ s.truncated => sessions'[i] = s
            /\ (~s.truncated /\
                ByteLength(s.stdout) + ByteLength(text) <= MaxOutputBytes) =>
                 /\ sessions'[i].stdout = s.stdout \o text
                 /\ ~sessions'[i].truncated
            /\ (~s.truncated /\
                ByteLength(s.stdout) + ByteLength(text) > MaxOutputBytes) =>
                 /\ sessions'[i].truncated
                 /\ Len(sessions'[i].stdout) > Len(s.stdout)
                 /\ SubSeq(sessions'[i].stdout, 1, Len(s.stdout)) = s.stdout]_vars

C30_Witness ==
  \E i \in Resident :
    /\ lastChunk.id = i /\ lastChunk.stream = "stderr"
    /\ lastChunk.text = Rep("euro", 100)
    /\ sessions[i].truncated
    /\ sessions[i].stdout[1] = "a" /\ sessions[i].stdout[256] = "euro"

\* the requests still to be handled in the cycle under way
Todo == {wTodo[k] : k \in 1..Len(wTodo)}

\* C31: processRequests takes the files whose name ends in .json only: a
\* request still at its temporary path is not listed, and so is not read,
\* executed, answered or removed by the worker before the host has renamed
\* it.
C31_OnlyFinalNames ==
  /\ [](\A r \in Requests :
         wReq[r] = "staged" =>
           /\ r \notin Todo
           /\ wExecs[r] = 0 /\ wResp[r] = "none" /\ wRespWrites[r] = 0)
  /\ [][\A r \in Requests :
          wReq[r] = "staged" => wReq'[r] \in {"staged", "pending"}]_vars

C31_Witness ==
  \E r, q \in Requests :
    /\ wReq[r] = "staged"
    /\ wpc = "exec" /\ Todo = {q} /\ wReq[q] = "pending"

\* C32 as stated: in the handling of a request the response file is written
\* once: no write of a response starts where the response of the same
\* handling is already in the file.
C32_WrittenOnce ==
  [][\A r \in Requests :
       wRespWrites'[r] > wRespWrites[r] => wpc \in {"work", "exec"}]_vars

\* C33 as stated: for an offset and a limit that are not negative getLog
\* returns the characters of the buffer from position offset up to, and
\* without, position offset + limit, cut at the end of the buffer; without a
\* limit it returns the buffer from offset on; totalChars is the length of
\* the buffer.
C33_LogWindow ==
  [][\A i \in Resident :
       (LogStep(i) /\ op'.args[1] >= 0) =>
         LET buf == sessions[i].stdout
             offset == op'.args[1]
             limit == op'.args[2]
         IN /\ op'.result.totalChars = Len(buf)
            /\ limit >= 0 =>
                 op'.result.output =
                   SubSeq(buf, offset + 1, Least(offset + limit, Len(buf)))
            /\ limit = Omitted =>
                 op'.result.output = SubSeq(buf, offset + 1, Len(buf))]_vars

\* the resolveModel call made last had a registry with an allowlist
Listing == resolved.result # Pending /\ resolved.registry.allowlist # {}

\* C34 as stated: under an allowlist that is not empty resolveModel returns
\* a model of the allowlist, whatever the registry configures.
C34_AlwaysListed ==
  Listing => resolved.result.model \in resolved.registry.allowlist

\* C34: under an allowlist that is not empty resolveModel returns a model of
\* the allowlist or the global model: an override or a rule model the
\* allowlist does not hold gives way to the global model, which is returned
\* whether the allowlist holds it or not; under an empty allowlist the rule
\* model, else the user's, else the group's, else the global model is
\* returned as it is.
C34_ListedOrGlobal ==
  /\ Listing =>
       \/ resolved.result.model \in resolved.registry.allowlist
       \/ resolved.result.model =
            GlobalModel(resolved.registry, resolved.caller)
  /\ (resolved.result # Pending /\ resolved.registry.allowlist = {}) =>
       resolved.result.model =
         (IF MatchedRule(resolved.caller) # None
            THEN MatchedRule(resolved.caller)
            ELSE StaticModel(resolved.registry, resolved.caller))

C34_Witness ==
  /\ Listing
  /\ resolved.registry.model = "safe/global"
  /\ resolved.registry.allowlist = {"safe/global", "safe/alt"}
  /\ resolved.caller.hasUser /\ resolved.registry.user = "forbidden/model"
  /\ resolved.caller.hasText /\ resolved.caller.userRule = "forbidden/model"
  /\ resolved.result.model = "safe/global"

\* the requests whose execution has begun and has not ended
Executing == {r \in Requests : wExecs[r] > wRespWrites[r]}

\* C35: at most one execution is under way at any time; an execution starts
\* for the first of the files listed at the start of the cycle only, the
\* list only loses files while the cycle lasts, and a request placed while
\* a cycle is under way is not in the list of that cycle, so that it is not
\* started before a later cycle.
C35_OneAtATime ==
  /\ [](Cardinality(Executing) <= 1)
  /\ [](wpc = "exec" => Executing = {Head(wTodo)})
  /\ [][\A r \in Requests :
          /\ wExecs'[r] > wExecs[r] => (wpc = "work" /\ r = Head(wTodo))
          /\ (wpc # "top" /\ r \in Todo') => r \in Todo
          /\ (wpc \notin {"top", "sleep"} /\ wReq[r] # "pending"
              /\ wReq'[r] = "pending") => r \notin Todo']_vars

C35_Witness ==
  \E r, q \in Requests :
    /\ wpc = "exec" /\ Head(wTodo) = q
    /\ wReq[r] = "pending" /\ r \notin Todo /\ wExecs[r] = 0

\* C36: a session leaves the Map in a removeSession for its id or in a
\* cleanupAllSessions only, never by the exit, the kill or the timeout of
\* its process, so the resident count does not fall with an exit; and
\* startProcess raises the capacity error while maxSessions sessions are
\* resident, be every one of them exited.
C36_ExitedHoldsSlot ==
  [][/\ \A i \in Resident :
          i \notin DOMAIN sessions' =>
            (Called("removeSession", i) \/ CleanupStep)
     /\ (\E i \in Resident \cap DOMAIN sessions' :
           ~sessions[i].exited /\ sessions'[i].exited) =>
          Cardinality(DOMAIN sessions') = Cardinality(Resident)
     /\ (StartStep /\ Cardinality(Resident) = MaxSessions
         /\ \A i \in Resident : sessions[i].exited) =>
          (op'.result = Thrown("capacity") /\ sessions' = sessions)]_vars

C36_Witness ==
  /\ op.name = "startProcess" /\ op.result = Thrown("capacity")
  /\ Cardinality(Resident) = MaxSessions
  /\ \A i \in Resident : sessions[i].exited
  /\ \E i \in Resident : sessions[i].exitSignal = "SIGKILL"
  /\ \E i \in Resident : sessions[i].exitCode = "0"

\* C37: every sandbox run started by executeAgentRun (the runContainer call,
\* from its start until it settles with an output, a fault or a timeout)
\* holds a semaphore permit throughout, also when the call was made
\* with useGroupLock=false; such a call never queues for, takes or releases
\* the group lock, and the permits out are exactly those of the calls
\* between grant and release.
C37_RunHoldsPermit ==
  /\ \A c \in Calls :
       /\ InFlight(c) => HoldsPermit(c)
       /\ ~useLock[c] =>
            /\ lockAcq[c] = 0 /\ lockRel[c] = 0
            /\ \A g \in Groups :
                 /\ lockHolder[g] # c
                 /\ \A k \in 1..Len(lockQueue[g]) : lockQueue[g][k] # c
  /\ semActive = Cardinality({c \in Calls : HoldsPermit(c)})

C37_Witness ==
  \E c, d \in Calls :
    /\ SameGroup(c, d)
    /\ ~useLock[c] /\ InFlight(c) /\ HoldsPermit(c)
    /\ useLock[d] /\ InFlight(d) /\ lockHolder[GroupOf(d)] = d

\* C38: startProcess arms the timeout timer of a new session exactly when its
\* effective timeout is positive, the effective timeout being the per-call
\* timeoutMs when that is not 0 and the configured default otherwise, so a
\* timeoutMs of 0 selects the default; a timer is armed by no other step, so
\* no session ever has a second one.
C38_TimerArmed ==
  [][\A i \in Ids :
       /\ (i \notin Resident /\ i \in DOMAIN sessions') =>
            LET t == op'.timeoutMs
                effective == IF t # 0 THEN t ELSE DefaultTimeoutMs
            IN /\ op'.name = "startProcess" /\ op'.id = i
               /\ proc'[i].timer <=> effective > 0
               /\ sessions'[i].timer = IF effective > 0 THEN "armed" ELSE "none"
       /\ (proc'[i].timer /\ ~proc[i].timer) =>
            (proc[i].st = "unspawned" /\ i \notin Resident)
       /\ (i \in Resident /\ i \in DOMAIN sessions' /\ sessions'[i].timer = "armed") =>
            sessions[i].timer = "armed"]_vars

C38_Witness ==
  /\ op.name = "startProcess" /\ op.id \in Resident
  /\ op.timeoutMs = 0
  /\ proc[op.id].timer /\ sessions[op.id].timer = "armed"
  /\ \E j \in Resident : sessions[j].timer = "none" /\ ~sessions[j].exited

\* a run of the task has been logged
RunStep == Len(runLog') = Len(runLog) + 1
LastRun == runLog'[Len(runLog')]
\* the delay the claim gives for the retry that makes the count k
ClaimedBackoff(k) ==
  LET doubled == TASK_RETRY_BASE_MS * 2 ^ (k - 1)
  IN IF doubled < TASK_RETRY_MAX_MS THEN doubled ELSE TASK_RETRY_MAX_MS
\* what the claim says of a run of the task
RetryRule ==
  IF LastRun.status = "error"
    THEN IF task.retry_count < TASK_MAX_RETRIES
           THEN /\ task'.retry_count = task.retry_count + 1
                /\ task'.next_run = At(clock + ClaimedBackoff(task'.retry_count))
           ELSE /\ task'.retry_count = task.retry_count
                /\ task'.next_run = ScheduleNextRun(task, clock)
    ELSE task'.retry_count = 0

\* C39 as stated: every failed run below the limit increments retry_count
\* and sets the next run to now plus the capped backoff, a failed run at the
\* limit keeps the schedule's next run, a successful run resets retry_count,
\* and retry_count never exceeds TASK_MAX_RETRIES.
C39_RetryBackoff ==
  /\ [](task # NoTask => task.retry_count <= TASK_MAX_RETRIES)
  /\ [][RunStep => RetryRule]_vars

\* C39: for a task whose group is registered and whose schedule is valid, a
\* failed run below the limit increments retry_count and sets the next run
\* to now plus the capped backoff, a failed run at the limit keeps the
\* schedule's next run and a successful run resets retry_count; a run that
\* finds no group changes nothing of the task, a task whose schedule is
\* invalid is paused with no next run; retry_count never exceeds
\* TASK_MAX_RETRIES.
C39_RetryBackoffWhenValid ==
  /\ [](task # NoTask => task.retry_count <= TASK_MAX_RETRIES)
  /\ [][RunStep =>
         /\ (LastRun.error # "groupNotFound" /\ ~ScheduleError(task)) => RetryRule
         /\ LastRun.error = "groupNotFound" => task' = task
         /\ (LastRun.error # "groupNotFound" /\ ScheduleError(task)) =>
              task'.status = "paused" /\ task'.next_run = Null]_vars

C39_Witness ==
  /\ task # NoTask
  /\ task.status = "active"
  /\ task.retry_count = TASK_MAX_RETRIES
  /\ Len(runLog) = TASK_MAX_RETRIES + 1
  /\ \A k \in 1..Len(runLog) : runLog[k].error = "agent"
  /\ task.next_run = ScheduleNextRun(task, clock) /\ task.next_run # Null

\* a request the claim lets start a run: a POST under /webhook/ with the
\* configured bearer token that names a registered group and carries a
\* non-empty string message
Qualifies(req) ==
  /\ req.method = "POST"
  /\ UnderWebhook(req.url)
  /\ req.authorization = <<"Bearer ", ConfigToken>>
  /\ GroupFolder(req.url) \in RegisteredFolders
  /\ req.body.json = "object"
  /\ req.body.message.type = "string" /\ req.body.message.length > 0
Refusals == {Status(401), Status(404), Status(400)}

\* C40: the handler invokes executeAgentRun only for a qualifying request;
\* every other request except the health check is answered with 401, 404 or
\* 400 and starts no run; a request without the configured token is served
\* only when it is the health check.
C40_OnlyValidPostsRun ==
  hook # NoResult =>
    /\ hook.started => Qualifies(hook.request)
    /\ (~Qualifies(hook.request) /\ ~IsHealthCheck(hook.request)) =>
         (hook.response \in Refusals /\ ~hook.started)
    /\ (hook.request.authorization # <<"Bearer ", ConfigToken>>
          /\ hook.response \notin Refusals) => IsHealthCheck(hook.request)

====
